---- MODULE Spec2Model ----
(***************************************************************************)
(* A model of the WxO Builder VS Code extension: the remote invocation     *)
(* protocol (submit a run, poll its thread), the editor panels' life       *)
(* cycle, the save/create handlers and the schema validator.               *)
(*                                                                         *)
(* Each part of the program has its own specification over its own group   *)
(* of variables; the other groups stay at their initial value.             *)
(***************************************************************************)
EXTENDS Integers, Sequences, FiniteSets, TLC

VARIABLES
    \* ---- remote invocation (api/skills.ts invokeToolRemote, api/agents.ts invokeAgent)
    cmd,               \* the webview command being handled: testRemote, testTool, invokeAgent
    entityId,          \* this._skillId / this._agentId of the owning panel ("none": null)
    pc,                \* where the handler is suspended
    threadId,          \* runData.thread_id ("unset" before the submit, "undefined" when absent)
    submitRes,         \* what the submit answered ("none" before)
    pollCount,         \* invokeAgent's pollCount; invokeToolRemote's loop variable i
    fetches,           \* thread-message fetches issued so far
    delays,            \* delays waited so far
    elapsed,           \* milliseconds spent in delays
    messages,          \* invokeToolRemote's `messages`
    lastPoll,          \* how the last poll attempt ended
    seenAssistant,     \* some poll's parsed message list held an assistant message
    outcome,           \* "none", "returned" or "threw" (of invokeToolRemote / invokeAgent)
    err,               \* which error was thrown
    data,              \* the returned value
    panelLive,         \* the owning panel is not disposed
    posted,            \* result events the handler posted to the panel's webview
    pollsAfterDispose, \* poll attempts issued after the panel was disposed
    disposedAt         \* where the handler was suspended when the panel was disposed

invokeVars == << cmd, entityId, pc, threadId, submitRes, pollCount, fetches, delays,
                 elapsed, messages, lastPoll, seenAssistant, outcome, err, data,
                 panelLive, posted, pollsAfterDispose, disposedAt >>

VARIABLES
    \* ---- the validator (validateOas)
    doc,        \* message.content of a validateOpenAPI message
    errors,     \* the errors posted back as validationResult
    vpc         \* "input" before the message is handled, "validated" after

valVars == << doc, errors, vpc >>

VARIABLES
    \* ---- the saveSkill / createTool handlers
    smode,        \* the panel's mode: "edit" (it has a skill id) or "create"
    saves,        \* saves[h]: the h-th saveSkill/createTool message and its handler
    spanelLive    \* the panel is not disposed

saveVars == << smode, saves, spanelLive >>

VARIABLES
    \* ---- the editor panels
    editor,         \* which class: "skill" (SkillEditorPanel) or "agent" (AgentEditorPanel)
    panels,         \* the panels created so far: [id, live]
    currentPanel,   \* the static currentPanel: an index of panels, 0 for undefined
    ops,            \* panels whose create / delete handler awaits its remote call
    pendingRender,  \* ids whose AgentEditorPanel.render awaits getAgent
    pendingReveal,  \* a SkillEditorPanel.render awaits _loadData before reveal
    revealFailed    \* that render then found currentPanel undefined

panelVars == << editor, panels, currentPanel, ops, pendingRender, pendingReveal,
                revealFailed >>

VARIABLES
    \* ---- connectionToSecurity
    app,        \* the connection passed to connectionToSecurity
    security,   \* what it returned, or that it raised
    secPc       \* "input" before the call, "done" after

secVars == << app, security, secPc >>

VARIABLES
    \* ---- the tool compiler (buildToolSpec) and the decompiler (skillToOas)
    oas,        \* the OpenAPI document passed to buildToolSpec
    tool,       \* the bound tool buildToolSpec returned
    copy,       \* the OpenAPI document skillToOas made of that tool
    cpc         \* "input", "compiled", "decompiled"

compVars == << oas, tool, copy, cpc >>

VARIABLES
    \* ---- generation of an OpenAPI document (generateOaS, fetchAndGenerate)
    greq,       \* the message: command, method, params, apiKeyParamName
    gen,        \* the document posted as updateJson
    gpc         \* "input", then "generated" or "failed"

genVars == << greq, gen, gpc >>

VARIABLES
    \* ---- updateSkill
    skillJson,  \* the document passed to updateSkill: which of its fields are set
    ureqs,      \* the requests sent so far: method and the keys of the body
    uanswers,   \* the responses received so far
    uout,       \* how updateSkill ended
    upc         \* "input", "put", "patch", "done"

updVars == << skillJson, ureqs, uanswers, uout, upc >>

VARIABLES
    \* ---- deploySkill
    dreqs,      \* the requests sent so far: "create", "upload"
    dans,       \* the responses received so far
    dzip,       \* createOpenApiZip: "none", "ok", "raised"
    dout,       \* how deploySkill ended
    dpc         \* "input", "create", "zip", "upload", "done"

depVars == << dreqs, dans, dzip, dout, dpc >>

\* The variables of the functions that are called on one input and return.
pureVars == << secVars, compVars, genVars, updVars >>

VARIABLES
    \* ---- the API key parameter name of a create-mode save
    kdoc,       \* the loaded document: its x-ibm-security and its apiKey scheme
    kfield,     \* the value of the field api-key-param-name
    kconn,      \* the connection selected in the form
    ksec,       \* binding.openapi.security of the tool compiled by the save
    kpc         \* "input", "form", "saved"

keyVars == << kdoc, kfield, kconn, ksec, kpc >>

VARIABLES
    \* ---- the parameter table of the create form
    tfmt,       \* the table's format: "paths" or "schema"
    tparams,    \* the parameters of the loaded document
    trows,      \* the rows of the table
    twritten,   \* the parameters written back into the document
    tedits,     \* the number of edits the user made to the table
    tpc         \* "input", "form", "json"

tblVars == << tfmt, tparams, trows, twritten, tedits, tpc >>

VARIABLES
    \* ---- the result extraction of invokeToolRemote on one assistant message
    xblocks,    \* the content blocks of the assistant message
    xdata,      \* the data extracted
    xpc         \* "input", "done"

extVars == << xblocks, xdata, xpc >>

VARIABLES
    \* ---- the createAgent and createTool handlers and the remote service
    ckind,      \* what is created: "agent" or "tool"
    ctools,     \* the tools chosen for the new agent
    cbefore,    \* the agents and tools on the remote service before the handler ran
    cremote,    \* the agents and tools that exist on the remote service
    canswers,   \* the answers the handler received
    creport,    \* what the handler told the user: "none", "success", "failure"
    crpc         \* "input", "creating", "updating", "done"

crVars == << ckind, ctools, cbefore, cremote, canswers, creport, crpc >>

VARIABLES
    \* ---- the Test tab
    detected    \* the method and path detectLocalEndpoints pre-filled

detVars == << detected >>

VARIABLES
    \* ---- the name of a tool across an edit-mode Update
    rtool,      \* the loaded tool: its name and its display_name
    rfield,     \* the value of the form field `name`
    redited,    \* the user changed the field
    rsent,      \* the name in the update payload
    rpc         \* "input", "form", "sent"

renVars == << rtool, rfield, redited, rsent, rpc >>

VARIABLES
    \* ---- concurrent remote tests with the shared test agent
    atool,      \* per test: the tool under test
    aremote,    \* the service's agents named WxoBuilderTestAgent: their tool lists
    acreated,   \* how many agents of that name the tests created
    apc,        \* per test: "start", "create", "update", "submit", "done"
    aid,        \* per test: the id of the agent it found or created
    asub        \* per test: the agent's tool list when its run was submitted

agVars == << atool, aremote, acreated, apc, aid, asub >>

\* The variables of the remaining operations.
lateVars == << depVars, keyVars, tblVars, extVars, crVars, detVars, renVars, agVars >>

vars == << invokeVars, valVars, saveVars, panelVars, pureVars, lateVars >>

\* What an action of one part leaves alone: the variables of the other parts.
InvokeFrame == UNCHANGED << valVars, saveVars, panelVars, pureVars, lateVars >>

ValFrame == UNCHANGED << invokeVars, saveVars, panelVars, pureVars, lateVars >>

SaveFrame == UNCHANGED << invokeVars, valVars, panelVars, pureVars, lateVars >>

PanelFrame == UNCHANGED << invokeVars, valVars, saveVars, pureVars, lateVars >>

uiVars == << invokeVars, valVars, saveVars, panelVars >>

SecFrame == UNCHANGED << uiVars, compVars, genVars, updVars, lateVars >>

CompFrame == UNCHANGED << uiVars, secVars, genVars, updVars, lateVars >>

GenFrame == UNCHANGED << uiVars, secVars, compVars, updVars, lateVars >>

UpdFrame == UNCHANGED << uiVars, secVars, compVars, genVars, lateVars >>

DepFrame ==
    UNCHANGED << uiVars, pureVars, keyVars, tblVars, extVars, crVars, detVars, renVars, agVars >>

KeyFrame ==
    UNCHANGED << uiVars, pureVars, depVars, tblVars, extVars, crVars, detVars, renVars, agVars >>

TblFrame ==
    UNCHANGED << uiVars, pureVars, depVars, keyVars, extVars, crVars, detVars, renVars, agVars >>

ExtFrame ==
    UNCHANGED << uiVars, pureVars, depVars, keyVars, tblVars, crVars, detVars, renVars, agVars >>

CrFrame ==
    UNCHANGED << uiVars, pureVars, depVars, keyVars, tblVars, extVars, detVars, renVars, agVars >>

DetFrame ==
    UNCHANGED << uiVars, pureVars, depVars, keyVars, tblVars, extVars, crVars, renVars, agVars >>

RenFrame ==
    UNCHANGED << uiVars, pureVars, depVars, keyVars, tblVars, extVars, crVars, detVars, agVars >>

AgFrame ==
    UNCHANGED << uiVars, pureVars, depVars, keyVars, tblVars, extVars, crVars, detVars, renVars >>

(***************************************************************************)
(* Small helpers                                                           *)
(***************************************************************************)
Min(S) == CHOOSE x \in S : \A y \in S : x <= y

Max(S) == CHOOSE x \in S : \A y \in S : x >= y

\* JavaScript's a ?? b on values whose absence is written "null".
Coalesce(a, b) == IF a # "null" THEN a ELSE b

(***************************************************************************)
(* Thread messages.  A message is [role, content]; a content is            *)
(* [k, s, b]: absent or empty (k = "none"), a string s (k = "str") or an    *)
(* ordered list b of typed blocks (k = "blocks").                          *)
(***************************************************************************)
NoContent == [k |-> "none", s |-> "", b |-> << >>]

StrContent(s) == [k |-> "str", s |-> s, b |-> << >>]

BlockContent(b) == [k |-> "blocks", s |-> "", b |-> b]

Block(type, content, output, result, tk, text) ==
    [type |-> type, content |-> content, output |-> output, result |-> result,
     tk |-> tk, text |-> text]

Msg(role, content) == [role |-> role, content |-> content]

\* The message invokeToolRemote submits (payload.message) as the thread shows it.
UserDirective == Msg("user", StrContent("directive"))

AssistantText == Msg("assistant", StrContent("answer"))

AssistantBlocks ==
    Msg("assistant",
        BlockContent(<< Block("text", "null", "null", "null", "str", "thinking"),
                        Block("tool_use", "null", "null", "null", "null", "null"),
                        Block("tool_result", "null", "out", "null", "null", "null") >>))

AssistantLater == Msg("assistant", StrContent("later answer"))

\* The message lists a poll may show.
ThreadLists ==
    { << >>,
      << UserDirective >>,
      << Msg("user", NoContent) >>,
      << UserDirective, AssistantText >>,
      << UserDirective, AssistantBlocks >>,
      << UserDirective, AssistantText, AssistantLater >> }

\* A poll's answer: the fetch raised, a non-OK response, or an OK response whose body
\* is unparsable, null, an array, {messages: [...]}, {data: [...]} or another object.
ListShapes == {"array", "messages", "data"}

OtherShapes == {"invalid", "null", "object"}

PollResponses ==
    { [t |-> "throw", shape |-> "none", list |-> << >>],
      [t |-> "notok", shape |-> "none", list |-> << >>] }
    \cup { [t |-> "ok", shape |-> sh, list |-> l] : sh \in ListShapes, l \in ThreadLists }
    \cup { [t |-> "ok", shape |-> sh, list |-> << >>] : sh \in OtherShapes }

SubmitResponses == {"throw", "notok", "ok_invalid", "ok_null", "ok_nothread", "ok_thread"}

Commands == {"testRemote", "testTool", "invokeAgent"}

IsTool == cmd \in {"testRemote", "testTool"}

(***************************************************************************)
(* Program constants                                                       *)
(***************************************************************************)
maxAttempts == 12

ToolDelayMs == 4000

AgentMaxPolls == 15

AgentDelayMs == 2000

(***************************************************************************)
(* invokeToolRemote: parsing one poll answer and extracting the result     *)
(***************************************************************************)
AssistantIdx(ms) == { j \in 1..Len(ms) : ms[j].role = "assistant" }

\* messages.find(m => m.role === 'assistant'): its index, 0 when there is none
FindAssistant(ms) == IF AssistantIdx(ms) = {} THEN 0 ELSE Min(AssistantIdx(ms))

\* messages.filter(m => m.role === 'assistant').pop(): its index, 0 when there is none
LastAssistant(ms) == IF AssistantIdx(ms) = {} THEN 0 ELSE Max(AssistantIdx(ms))

\* Array.isArray(msgData) ? msgData : (msgData.messages || msgData.data || [])
ToolParse(resp) ==
    IF resp.shape \in {"array", "messages", "data"} THEN resp.list ELSE << >>

\* const messages = data.data || data; the list when Array.isArray(messages)
AgentParse(resp) ==
    IF resp.shape \in {"array", "data"} THEN resp.list ELSE << >>

AgentIsArray(resp) == resp.shape \in {"array", "data"}

\* await msgRes.json() rejects, or a property of null is read
BodyRaises(resp) == resp.t = "ok" /\ resp.shape \in {"invalid", "null"}

FirstOfType(b, type) ==
    LET S == { j \in 1..Len(b) : b[j].type = type }
    IN  IF S = {} THEN 0 ELSE Min(S)

NoData == [kind |-> "none", val |-> "", msgs |-> << >>, fromRole |-> "none", fromIdx |-> 0]

\* An extraction that prefers a text block to a tool_result block.
ExtractResult_TextFirst(ms) ==
    LET idx == IF FindAssistant(ms) # 0 THEN FindAssistant(ms)
               ELSE IF Len(ms) > 0 THEN 1 ELSE 0
        fallback == IF Len(ms) > 0
                    THEN [NoData EXCEPT !.kind = "messages", !.msgs = ms]
                    ELSE [NoData EXCEPT !.kind = "placeholder"]
    IN  IF idx = 0 \/ ms[idx].content.k = "none" THEN fallback
        ELSE LET m == ms[idx]
                 c == m.content
                 from == [NoData EXCEPT !.fromRole = m.role, !.fromIdx = idx]
             IN  IF c.k = "str" THEN [from EXCEPT !.kind = "content", !.val = c.s]
                 ELSE LET tr == FirstOfType(c.b, "tool_result")
                          tx == FirstOfType(c.b, "text")
                          tu == FirstOfType(c.b, "tool_use")
                      IN  IF tx # 0 /\ c.b[tx].tk # "null"
                          THEN [from EXCEPT !.kind = "text",
                                            !.val = IF c.b[tx].tk = "str" THEN c.b[tx].text
                                                    ELSE Coalesce(c.b[tx].text, "json")]
                          ELSE IF tr # 0
                          THEN [from EXCEPT !.kind = "tool_result",
                                            !.val = Coalesce(c.b[tr].content,
                                                      Coalesce(c.b[tr].output,
                                                        Coalesce(c.b[tr].result, "block")))]
                          ELSE IF tu # 0
                          THEN [from EXCEPT !.kind = "tool_use",
                                            !.val = Coalesce(c.b[tu].content, "block")]
                          ELSE [from EXCEPT !.kind = "content_array"]

\* lines 289-316: the message answered from and the value taken from it
ExtractResult(ms) ==
    LET a   == FindAssistant(ms)
        idx == IF a # 0 THEN a ELSE IF Len(ms) > 0 THEN 1 ELSE 0
        fallback == IF Len(ms) > 0
                    THEN [NoData EXCEPT !.kind = "messages", !.msgs = ms]
                    ELSE [NoData EXCEPT !.kind = "placeholder"]
    IN  IF idx = 0 \/ ms[idx].content.k = "none" THEN fallback
        ELSE LET m == ms[idx]
                 c == m.content
                 from == [NoData EXCEPT !.fromRole = m.role, !.fromIdx = idx]
             IN  IF c.k = "str" THEN [from EXCEPT !.kind = "content", !.val = c.s]
                 ELSE LET tr == FirstOfType(c.b, "tool_result")
                          tx == FirstOfType(c.b, "text")
                          tu == FirstOfType(c.b, "tool_use")
                      IN  IF tr # 0
                          THEN [from EXCEPT !.kind = "tool_result",
                                            !.val = Coalesce(c.b[tr].content,
                                                      Coalesce(c.b[tr].output,
                                                        Coalesce(c.b[tr].result, "block")))]
                          ELSE IF tx # 0 /\ c.b[tx].tk # "null"
                          THEN [from EXCEPT !.kind = "text",
                                            !.val = IF c.b[tx].tk = "str" THEN c.b[tx].text
                                                    ELSE Coalesce(c.b[tx].text, "json")]
                          ELSE IF tu # 0
                          THEN [from EXCEPT !.kind = "tool_use",
                                            !.val = Coalesce(c.b[tu].content, "block")]
                          ELSE [from EXCEPT !.kind = "content_array"]

\* lines 168-184 of invokeAgent: the response built from the assistant message
AgentResult(ms) ==
    LET idx == LastAssistant(ms)
        c   == ms[idx].content
        from == [NoData EXCEPT !.fromRole = "assistant", !.fromIdx = idx]
    IN  IF c.k = "str" THEN [from EXCEPT !.kind = "content", !.val = c.s]
        ELSE IF c.k = "blocks" THEN [from EXCEPT !.kind = "text_parts"]
        ELSE [from EXCEPT !.kind = "unknown", !.val = "Unknown format"]

\* The content blocks an assistant message may hold, in any order.
MaxBlocks == 3

ContentBlocks ==
    { Block("tool_result", c, o, r, "null", "null") :
          c \in {"null", "c"}, o \in {"null", "o"}, r \in {"null", "r"} }
    \cup { Block("text", "null", "null", "null", "str", "t"),
           Block("text", "null", "null", "null", "obj", "v"),
           Block("text", "null", "null", "null", "obj", "null"),
           Block("text", "null", "null", "null", "null", "null"),
           Block("tool_use", "u", "null", "null", "null", "null"),
           Block("tool_use", "null", "null", "null", "null", "null"),
           Block("image", "null", "null", "null", "null", "null") }

BlockLists == UNION { [1..k -> ContentBlocks] : k \in 0..MaxBlocks }

\* The thread of one tool run: the directive, then the assistant's message.
ThreadOf(b) == << UserDirective, Msg("assistant", BlockContent(b)) >>

InitExtract ==
    /\ xblocks \in BlockLists
    /\ xdata = NoData
    /\ xpc = "input"

\* lines 289-316 on a thread whose assistant message holds the blocks
Extract ==
    /\ xpc = "input"
    /\ xdata' = ExtractResult(ThreadOf(xblocks))
    /\ xpc' = "done"
    /\ UNCHANGED xblocks
    /\ ExtFrame

(***************************************************************************)
(* The handlers testRemote / testTool / invokeAgent of the editor panels   *)
(***************************************************************************)
ResultEvent ==
    IF cmd = "testRemote" THEN "testRemoteResult"
    ELSE IF cmd = "testTool" THEN "testResult" ELSE "chatResponse"

\* this._panel.webview.postMessage(...)
Post(isError) ==
    posted' = Append(posted, [command |-> ResultEvent, error |-> isError,
                              toDisposed |-> ~panelLive])

\* the function threw: the handler's catch posts the error
Throws(e) ==
    /\ outcome' = "threw"
    /\ err' = e
    /\ pc' = "done"
    /\ Post(TRUE)

\* the function returned d: the handler posts the result
Returns(d) ==
    /\ outcome' = "returned"
    /\ data' = d
    /\ pc' = "done"
    /\ Post(FALSE)

InitInvoke ==
    /\ cmd = "none"
    /\ entityId \in {"none", "e1"}
    /\ pc = "idle"
    /\ threadId = "unset"
    /\ submitRes = "none"
    /\ pollCount = 0
    /\ fetches = 0
    /\ delays = 0
    /\ elapsed = 0
    /\ messages = << >>
    /\ lastPoll = "none"
    /\ seenAssistant = FALSE
    /\ outcome = "none"
    /\ err = "none"
    /\ data = NoData
    /\ panelLive = TRUE
    /\ posted = << >>
    /\ pollsAfterDispose = 0
    /\ disposedAt = "none"

\* A command arrives from the webview.  Without an entity id the tool handlers post an
\* error and invokeAgent does nothing; with a configured agent id the run is submitted
\* at once, else ensureTestAgentForTool is awaited first.
Receive(c, cfgAgent) ==
    /\ pc = "idle"
    /\ panelLive
    /\ cmd' = c
    /\ IF entityId = "none"
       THEN /\ pc' = "done"
            /\ posted' = IF c = "invokeAgent" THEN posted
                         ELSE Append(posted,
                                [command |-> IF c = "testRemote" THEN "testRemoteResult"
                                             ELSE "testResult",
                                 error |-> TRUE, toDisposed |-> FALSE])
       ELSE /\ pc' = IF c # "invokeAgent" /\ ~cfgAgent THEN "ensure" ELSE "submit"
            /\ UNCHANGED posted
    /\ UNCHANGED << entityId, threadId, submitRes, pollCount, fetches, delays, elapsed,
                    messages, lastPoll, seenAssistant, outcome, err, data, panelLive,
                    pollsAfterDispose, disposedAt >>
    /\ InvokeFrame

\* ensureTestAgentForTool settles
EnsureReturns(ok) ==
    /\ pc = "ensure"
    /\ IF ok
       THEN /\ pc' = "submit"
            /\ UNCHANGED << outcome, err, posted >>
       ELSE /\ pc' = "done"
            /\ UNCHANGED << outcome, err >>
            /\ Post(TRUE)
    /\ UNCHANGED << cmd, entityId, threadId, submitRes, pollCount, fetches, delays, elapsed,
                    messages, lastPoll, seenAssistant, data, panelLive, pollsAfterDispose,
                    disposedAt >>
    /\ InvokeFrame

\* invokeToolRemote lines 259-278: the answer to POST /v1/orchestrate/runs
ToolSubmitReturns(r) ==
    /\ submitRes' = r
    /\ CASE r = "throw"       -> Throws("transport") /\ UNCHANGED << threadId, pollCount >>
         [] r = "notok"       -> Throws("run_failed") /\ UNCHANGED << threadId, pollCount >>
         [] r = "ok_invalid"  -> Throws("parse") /\ UNCHANGED << threadId, pollCount >>
         [] r = "ok_null"     -> Throws("type_error") /\ UNCHANGED << threadId, pollCount >>
         [] r = "ok_nothread" -> /\ threadId' = "undefined"
                                 /\ Throws("no_thread_id")
                                 /\ UNCHANGED pollCount
         [] r = "ok_thread"   -> /\ threadId' = "t1"
                                 /\ pollCount' = 0
                                 /\ pc' = "delay"
                                 /\ UNCHANGED << outcome, err, posted >>
    /\ UNCHANGED data

\* invokeAgent lines 139-161: the answer to POST /v1/orchestrate/runs
AgentSubmitReturns(r) ==
    /\ submitRes' = r
    /\ CASE r = "throw"       -> Throws("transport") /\ UNCHANGED << threadId, pollCount >>
         [] r = "notok"       -> Throws("run_failed") /\ UNCHANGED << threadId, pollCount >>
         [] r = "ok_invalid"  -> Throws("parse") /\ UNCHANGED << threadId, pollCount >>
         [] r = "ok_null"     -> Throws("type_error") /\ UNCHANGED << threadId, pollCount >>
         [] r \in {"ok_nothread", "ok_thread"} ->
                                 /\ threadId' = IF r = "ok_thread" THEN "t1" ELSE "undefined"
                                 /\ pollCount' = 1
                                 /\ pc' = "delay"
                                 /\ UNCHANGED << outcome, err, posted >>
    /\ UNCHANGED data

SubmitReturns(r) ==
    /\ pc = "submit"
    /\ IF IsTool THEN ToolSubmitReturns(r) ELSE AgentSubmitReturns(r)
    /\ UNCHANGED << cmd, entityId, fetches, delays, elapsed, messages, lastPoll,
                    seenAssistant, panelLive, pollsAfterDispose, disposedAt >>
    /\ InvokeFrame

\* The delay of one iteration is over and the thread's messages are requested.
DelayElapses ==
    /\ pc = "delay"
    /\ pc' = "fetch"
    /\ delays' = delays + 1
    /\ elapsed' = elapsed + (IF IsTool THEN ToolDelayMs ELSE AgentDelayMs)
    /\ fetches' = fetches + 1
    /\ pollsAfterDispose' = IF panelLive THEN pollsAfterDispose ELSE pollsAfterDispose + 1
    /\ UNCHANGED << cmd, entityId, threadId, submitRes, pollCount, messages, lastPoll,
                    seenAssistant, outcome, err, data, panelLive, posted, disposedAt >>
    /\ InvokeFrame

\* invokeToolRemote lines 280-318: one poll answer, and the rest of the function when
\* the loop ends with it
ToolPollReturns(resp) ==
    LET raises == resp.t = "throw" \/ BodyRaises(resp)
        ms     == IF resp.t = "ok" THEN ToolParse(resp) ELSE messages
        found  == resp.t = "ok" /\ FindAssistant(ms) # 0
    IN  /\ lastPoll' = IF raises THEN "raised" ELSE resp.t
        /\ IF raises
           THEN /\ Throws(IF resp.t = "throw" THEN "transport" ELSE "parse")
                /\ UNCHANGED << messages, seenAssistant, pollCount, data >>
           ELSE /\ messages' = ms
                /\ seenAssistant' = (seenAssistant \/ found)
                /\ IF found
                   THEN Returns(ExtractResult(ms)) /\ UNCHANGED << pollCount, err >>
                   ELSE /\ pollCount' = pollCount + 1
                        /\ IF pollCount + 1 < maxAttempts
                           THEN /\ pc' = "delay"
                                /\ UNCHANGED << outcome, err, data, posted >>
                           ELSE Returns(ExtractResult(ms)) /\ UNCHANGED err

\* A poll loop that tests `pollCount <= 15` instead of `pollCount < 15`: one poll more.
AgentPollReturns_OneMore(resp) ==
    LET raises == resp.t = "throw" \/ BodyRaises(resp)
        ms     == AgentParse(resp)
        found  == resp.t = "ok" /\ AgentIsArray(resp) /\ LastAssistant(ms) # 0
    IN  /\ lastPoll' = IF raises THEN "raised" ELSE resp.t
        /\ UNCHANGED messages
        /\ IF raises
           THEN /\ Throws(IF resp.t = "throw" THEN "transport" ELSE "parse")
                /\ UNCHANGED << seenAssistant, pollCount, data >>
           ELSE /\ seenAssistant' = (seenAssistant \/ found)
                /\ IF found
                   THEN Returns(AgentResult(ms)) /\ UNCHANGED << pollCount, err >>
                   ELSE IF pollCount <= AgentMaxPolls
                        THEN /\ pollCount' = pollCount + 1
                             /\ pc' = "delay"
                             /\ UNCHANGED << outcome, err, data, posted >>
                        ELSE Throws("timeout") /\ UNCHANGED << pollCount, data >>

\* invokeAgent lines 160-189: one poll answer
AgentPollReturns(resp) ==
    LET raises == resp.t = "throw" \/ BodyRaises(resp)
        ms     == AgentParse(resp)
        found  == resp.t = "ok" /\ AgentIsArray(resp) /\ LastAssistant(ms) # 0
    IN  /\ lastPoll' = IF raises THEN "raised" ELSE resp.t
        /\ UNCHANGED messages
        /\ IF raises
           THEN /\ Throws(IF resp.t = "throw" THEN "transport" ELSE "parse")
                /\ UNCHANGED << seenAssistant, pollCount, data >>
           ELSE /\ seenAssistant' = (seenAssistant \/ found)
                /\ IF found
                   THEN Returns(AgentResult(ms)) /\ UNCHANGED << pollCount, err >>
                   ELSE IF pollCount < AgentMaxPolls
                        THEN /\ pollCount' = pollCount + 1
                             /\ pc' = "delay"
                             /\ UNCHANGED << outcome, err, data, posted >>
                        ELSE Throws("timeout") /\ UNCHANGED << pollCount, data >>

PollReturns(resp) ==
    /\ pc = "fetch"
    /\ IF IsTool THEN ToolPollReturns(resp) ELSE AgentPollReturns(resp)
    /\ UNCHANGED << cmd, entityId, threadId, submitRes, fetches, delays, elapsed,
                    panelLive, pollsAfterDispose, disposedAt >>
    /\ InvokeFrame

\* SkillEditorPanel.dispose / AgentEditorPanel.dispose: the user closes the panel.
DisposePanel ==
    /\ panelLive
    /\ cmd # "none"
    /\ panelLive' = FALSE
    /\ disposedAt' = pc
    /\ UNCHANGED << cmd, entityId, pc, threadId, submitRes, pollCount, fetches, delays,
                    elapsed, messages, lastPoll, seenAssistant, outcome, err, data,
                    posted, pollsAfterDispose >>
    /\ InvokeFrame

(***************************************************************************)
(* validateOas (panels/SkillEditorPanel.ts).  A JSON value is modelled by  *)
(* its kind, which is all the validator looks at: "undefined", "null",     *)
(* "empty" (the empty string), "string", "number", "array", "object".      *)
(***************************************************************************)
\* !!v
Truthy(k) == k \notin {"undefined", "null", "empty"}

\* typeof v === 'object'
TypeofObject(k) == k \in {"null", "array", "object"}

\* Array.isArray(v)
IsArray(k) == k = "array"

MkDoc(top, bo, hm, hp, is, nm, dn, oa, inf, ti, ve, pa, se) ==
    [top |-> top, bindingOpenapi |-> bo, http_method |-> hm, http_path |-> hp,
     input_schema |-> is, name |-> nm, display_name |-> dn, openapi |-> oa,
     info |-> inf, title |-> ti, version |-> ve, paths |-> pa, servers |-> se]

\* The documents validated: every combination of field kinds of an object (only an
\* object binding.openapi has an http_method and an http_path, only an object info has
\* a title and a version), and the contents that are no object.
BindingKinds ==
    { << "object", hm, hp >> : hm \in {"undefined", "string"}, hp \in {"undefined", "string"} }
    \cup { << bo, "undefined", "undefined" >> : bo \in {"undefined", "string", "array"} }

InfoKinds ==
    { << "object", ti, ve >> : ti \in {"undefined", "string"},
                               ve \in {"undefined", "null", "string"} }
    \cup { << inf, "undefined", "undefined" >> : inf \in {"undefined", "string"} }

Docs ==
    { MkDoc("object", b[1], b[2], b[3], is, nm, dn, oa, inf[1], inf[2], inf[3], pa, se) :
        b \in BindingKinds,
        is \in {"undefined", "null", "string", "array", "object"},
        nm \in {"undefined", "string"}, dn \in {"undefined", "empty", "string"},
        oa \in {"undefined", "string", "number"},
        inf \in InfoKinds,
        pa \in {"undefined", "string", "array", "object"},
        se \in {"undefined", "array", "object"} }
    \cup
    { MkDoc(top, "undefined", "undefined", "undefined", "undefined", "undefined",
            "undefined", "undefined", "undefined", "undefined", "undefined", "undefined",
            "undefined") : top \in {"null", "string", "array"} }

Opt(cond, e) == IF cond THEN << e >> ELSE << >>

\* lines 42-48: the rules of the WxO skill format
BoundErrors(d) ==
    Opt(~Truthy(d.http_method), "binding.openapi.http_method is required")
    \o Opt(~Truthy(d.http_path), "binding.openapi.http_path is required")
    \o Opt(~Truthy(d.input_schema) \/ ~TypeofObject(d.input_schema),
           "input_schema is required for WxO tools")
    \o Opt(~Truthy(d.name) /\ ~Truthy(d.display_name), "name or display_name is required")

\* lines 51-60: the rules of the OpenAPI format
OpenApiErrors(d) ==
    (IF ~Truthy(d.openapi) THEN << "Missing required field: openapi" >>
     ELSE Opt(d.openapi # "string", "openapi must be a string (e.g. \"3.0.1\")"))
    \o (IF ~Truthy(d.info) THEN << "Missing required field: info" >>
        ELSE Opt(~Truthy(d.title), "info.title is required")
             \o Opt(d.version \in {"undefined", "null"}, "info.version is recommended"))
    \o Opt(d.paths # "undefined" /\ (~TypeofObject(d.paths) \/ IsArray(d.paths)),
           "paths must be an object")
    \o Opt(d.servers # "undefined" /\ ~IsArray(d.servers), "servers must be an array")

\* line 42: binding && typeof binding === 'object'
IsBoundDialect(d) == Truthy(d.bindingOpenapi) /\ TypeofObject(d.bindingOpenapi)

validateOas(d) ==
    IF ~Truthy(d.top) \/ ~TypeofObject(d.top) THEN << "Content is not a valid object." >>
    ELSE IF IsBoundDialect(d) THEN BoundErrors(d)
    ELSE OpenApiErrors(d)

InitValidate ==
    /\ doc \in Docs
    /\ errors = << >>
    /\ vpc = "input"

\* case "validateOpenAPI": the errors are posted back to the webview
ValidateOpenAPI ==
    /\ vpc = "input"
    /\ errors' = validateOas(doc)
    /\ vpc' = "validated"
    /\ UNCHANGED doc
    /\ ValFrame

(***************************************************************************)
(* The saveSkill / createTool handlers of SkillEditorPanel and the Save    *)
(* button of the webview (resources/skillEditor.js)                        *)
(***************************************************************************)
\* How many save/create messages one panel's webview sends.
MaxSaves == 2

ValidOpenApiDoc ==
    MkDoc("object", "undefined", "undefined", "undefined", "undefined", "undefined",
          "undefined", "string", "object", "string", "string", "object", "array")

\* What the Save button sends in create mode: it sets info.title and info.version from
\* the form (lines 655-658), so info is an object and the version a string.
CreateDocs ==
    { ValidOpenApiDoc,
      [ValidOpenApiDoc EXCEPT !.title = "empty"],
      [ValidOpenApiDoc EXCEPT !.openapi = "undefined"],
      [ValidOpenApiDoc EXCEPT !.servers = "object"],
      [ValidOpenApiDoc EXCEPT !.bindingOpenapi = "object", !.http_method = "string",
                              !.http_path = "string", !.input_schema = "object",
                              !.name = "string"] }

ValidBoundDoc ==
    MkDoc("object", "object", "string", "string", "object", "string", "string",
          "undefined", "undefined", "undefined", "undefined", "undefined", "undefined")

\* What the Save button sends in edit mode: name and display_name are the form's name
\* field (lines 664-665); the rest is the text of the JSON editor, which may hold an
\* OpenAPI document (info.version is set from the form in create mode only).
EditDocs ==
    { ValidBoundDoc,
      [ValidOpenApiDoc EXCEPT !.name = "string", !.display_name = "string",
                              !.version = "undefined"],
      [ValidBoundDoc EXCEPT !.name = "empty", !.display_name = "empty"],
      [ValidBoundDoc EXCEPT !.input_schema = "undefined"],
      [ValidBoundDoc EXCEPT !.http_path = "undefined"] }

\* line 697: command: mode === 'create' ? 'createTool' : 'saveSkill'
SaveCommand == IF smode = "create" THEN "createTool" ELSE "saveSkill"

SaveDocs == IF smode = "create" THEN CreateDocs ELSE EditDocs

\* The option of the modal dialog that confirms (lines 986, 993, 1014, 1021).
ConfirmLabel(command, hasErr) ==
    IF command = "saveSkill" THEN (IF hasErr THEN "Update Anyway" ELSE "Update")
    ELSE (IF hasErr THEN "Create Anyway" ELSE "Create")

\* What showWarningMessage / showInformationMessage can resolve to: an offered option,
\* or undefined when the dialog is dismissed.
DialogAnswers(command, hasErr) == { ConfirmLabel(command, hasErr), "Cancel", "undefined" }

\* A handler that stops only on "Cancel", so that a dismissed dialog goes on.
Proceeds_UnlessCancel(choice, command, hasErr) == choice # "Cancel"

\* lines 988, 995, 1016, 1023: `if (choice !== "<confirming option>") return;`
Proceeds(choice, command, hasErr) == choice = ConfirmLabel(command, hasErr)

\* How the remote service answers the update / create request.
RemoteOutcomes == {"ok", "rejected", "unparsable"}

NoSave ==
    [st |-> "unused", command |-> "none", doc |-> ValidBoundDoc, hasErr |-> FALSE,
     choice |-> "none", sent |-> FALSE, applied |-> FALSE, reported |-> "none"]

InitSave ==
    /\ smode \in {"edit", "create"}
    /\ saves = [h \in 1..MaxSaves |-> NoSave]
    /\ spanelLive = TRUE

DialogOpen == \E h \in 1..MaxSaves : saves[h].st = "dialog"

\* The Save button is clicked (it is never disabled) and the handler validates the
\* content and opens its modal dialog.  A modal dialog blocks the window, so no click
\* arrives while one is open.
SaveMessage(h, d) ==
    /\ spanelLive
    /\ d \in SaveDocs
    /\ ~DialogOpen
    /\ saves[h].st = "unused"
    /\ \A g \in 1..MaxSaves : g < h => saves[g].st # "unused"
    /\ saves' = [saves EXCEPT ![h] =
                    [NoSave EXCEPT !.st = "dialog", !.command = SaveCommand, !.doc = d,
                                   !.hasErr = (validateOas(d) # << >>)]]
    /\ UNCHANGED << smode, spanelLive >>
    /\ SaveFrame

\* The dialog is answered.  Only the confirming option goes on: saveSkill calls
\* updateSkill (the panel of an edit has a skill id), createTool builds the tool spec
\* from oas.info (a TypeError when info is missing is caught and reported) and calls
\* deploySkill.
DialogAnswered(h, c) ==
    /\ saves[h].st = "dialog"
    /\ c \in DialogAnswers(saves[h].command, saves[h].hasErr)
    /\ saves' = [saves EXCEPT ![h] =
                    IF ~Proceeds(c, saves[h].command, saves[h].hasErr)
                    THEN [@ EXCEPT !.st = "done", !.choice = c]
                    ELSE IF saves[h].command = "createTool" /\ ~Truthy(saves[h].doc.info)
                    THEN [@ EXCEPT !.st = "done", !.choice = c, !.reported = "failure"]
                    ELSE [@ EXCEPT !.st = "remote", !.choice = c, !.sent = TRUE]]
    /\ UNCHANGED << smode, spanelLive >>
    /\ SaveFrame

\* The remote call settles.  updateSkill treats an unparsable body as success;
\* deploySkill throws on it although the tool was created.  After a create the panel
\* disposes itself.
RemoteSettles(h, o) ==
    /\ saves[h].st = "remote"
    /\ LET applied  == o # "rejected"
           success  == o = "ok" \/ (o = "unparsable" /\ saves[h].command = "saveSkill")
       IN  /\ saves' = [saves EXCEPT ![h] =
                          [@ EXCEPT !.st = "done", !.applied = applied,
                                    !.reported = IF success THEN "success" ELSE "failure"]]
           /\ spanelLive' = IF success /\ saves[h].command = "createTool" THEN FALSE
                            ELSE spanelLive
    /\ UNCHANGED smode
    /\ SaveFrame

(***************************************************************************)
(* The life cycle of the editor panels: SkillEditorPanel and               *)
(* AgentEditorPanel (render, dispose, the static currentPanel)             *)
(***************************************************************************)
\* How many panels are created in one run.
MaxPanels == 4

\* Entity ids; "none" is null, the create placeholder.
Ids == {"none", "a", "b"}

LivePanels == { p \in 1..Len(panels) : panels[p].live }

InitPanel ==
    /\ editor \in {"skill", "agent"}
    /\ panels = << >>
    /\ currentPanel = 0
    /\ ops = {}
    /\ pendingRender = {}
    /\ pendingReveal = FALSE
    /\ revealFailed = FALSE

\* dispose(): currentPanel = undefined, whichever panel `this` is; this._panel.dispose()
\* (which fires onDidDispose, a second dispose() that changes nothing more).
dispose(p) ==
    /\ currentPanel' = 0
    /\ panels' = [panels EXCEPT ![p].live = FALSE]

\* render from its test of currentPanel on (SkillEditorPanel lines 87-116,
\* AgentEditorPanel lines 1440-1460)
RenderSync(id, custom) ==
    IF currentPanel # 0 /\ panels[currentPanel].id = id
    THEN /\ pendingReveal' = (pendingReveal \/ (editor = "skill" /\ id = "none" /\ custom))
         /\ UNCHANGED << panels, currentPanel >>
    ELSE /\ Len(panels) < MaxPanels
         /\ panels' = Append(IF currentPanel # 0
                             THEN [panels EXCEPT ![currentPanel].live = FALSE]
                             ELSE panels,
                             [id |-> id, live |-> TRUE])
         /\ currentPanel' = Len(panels) + 1
         /\ UNCHANGED pendingReveal

\* render(id): AgentEditorPanel first awaits getAgent when it has an id.
render(id, custom) ==
    /\ IF editor = "agent" /\ id # "none"
       THEN /\ id \notin pendingRender
            /\ pendingRender' = pendingRender \cup {id}
            /\ UNCHANGED << panels, currentPanel, pendingReveal >>
       ELSE /\ ~(pendingReveal /\ custom)
            /\ RenderSync(id, custom)
            /\ UNCHANGED pendingRender
    /\ UNCHANGED << editor, ops, revealFailed >>
    /\ PanelFrame

\* getAgent settled (or failed: the title falls back to the id)
RenderResumes(id) ==
    /\ id \in pendingRender
    /\ pendingRender' = pendingRender \ {id}
    /\ RenderSync(id, FALSE)
    /\ UNCHANGED << editor, ops, revealFailed >>
    /\ PanelFrame

\* line 98, after the awaited _loadData: currentPanel._panel.reveal(...)
RevealAfterLoad ==
    /\ pendingReveal
    /\ pendingReveal' = FALSE
    /\ revealFailed' = (revealFailed \/ currentPanel = 0)
    /\ UNCHANGED << editor, panels, currentPanel, ops, pendingRender >>
    /\ PanelFrame

\* The user closes the panel: onDidDispose calls dispose().
UserCloses(p) ==
    /\ p \in LivePanels
    /\ dispose(p)
    /\ UNCHANGED << editor, ops, pendingRender, pendingReveal, revealFailed >>
    /\ PanelFrame

\* case "close": this.dispose()
CloseMessage(p) ==
    /\ p \in LivePanels
    /\ dispose(p)
    /\ UNCHANGED << editor, ops, pendingRender, pendingReveal, revealFailed >>
    /\ PanelFrame

\* createTool / createAgent (a create panel) or deleteSkill / deleteAgent (a panel with
\* an id) was confirmed and awaits its remote call.
HandlerAwaits(p) ==
    /\ p \in LivePanels
    /\ p \notin ops
    /\ ops' = ops \cup {p}
    /\ UNCHANGED << editor, panels, currentPanel, pendingRender, pendingReveal,
                    revealFailed >>
    /\ PanelFrame

\* The remote call settled: on success the handler calls this.dispose().
HandlerResumes(p, ok) ==
    /\ p \in ops
    /\ ops' = ops \ {p}
    /\ IF ok THEN dispose(p) ELSE UNCHANGED << panels, currentPanel >>
    /\ UNCHANGED << editor, pendingRender, pendingReveal, revealFailed >>
    /\ PanelFrame

(***************************************************************************)
(* connectionToSecurity (SkillEditorPanel.ts lines 2-14)                   *)
(***************************************************************************)
\* app.security_scheme: absent, null, a string (a scheme's name), an empty array, an
\* array of one or two entries, an object with a type, an object without one.
SchemeKinds ==
    {"undefined", "null", "string", "emptyArray", "array1", "array2", "objTyped",
     "objUntyped"}

\* app.auth_type: absent, null, 0, a string, or a truthy value that is no string.
AuthStrings ==
    {"", "api_key", "apikey", "api-key", "API_KEY", "ApiKey", "bearer", "Bearer",
     "oauth2", "OAuth2", "basic"}

AuthNonStrings == {"undefined", "null", "zero", "number", "true", "object"}

\* The connections: null, undefined, or an object with the two fields.
Apps ==
    { [present |-> FALSE, scheme |-> k, auth |-> "undefined"] : k \in {"null", "undefined"} }
    \cup { [present |-> TRUE, scheme |-> k, auth |-> a] :
              k \in SchemeKinds, a \in AuthStrings \cup AuthNonStrings }

\* The entries of an array-valued security_scheme.
SchemeArray(k) ==
    IF k = "array1" THEN << "explicit1" >>
    ELSE IF k = "array2" THEN << "explicit1", "explicit2" >>
    ELSE << >>

\* String.prototype.toLowerCase on the auth-type strings
ToLowerCase(a) ==
    CASE a = "API_KEY" -> "api_key"
      [] a = "ApiKey"  -> "apikey"
      [] a = "Bearer"  -> "bearer"
      [] a = "OAuth2"  -> "oauth2"
      [] OTHER         -> a

ApiKeyQueryDefault == << "apiKey/query/apiKey" >>

HttpBearerDefault == << "http/bearer/Authorization" >>

SecReturn(l) == [raised |-> FALSE, list |-> l]

SecRaise == [raised |-> TRUE, list |-> << >>]

connectionToSecurity(a) ==
    LET scheme == IF a.present THEN a.scheme ELSE "undefined"
        authv  == IF a.present THEN a.auth ELSE "undefined"
    IN  IF scheme \in {"array1", "array2"} THEN SecReturn(SchemeArray(scheme))
        ELSE IF scheme = "objTyped" THEN SecReturn(<< "scheme" >>)
        ELSE IF authv \in {"number", "true", "object"} THEN SecRaise
        ELSE LET auth == IF authv \in AuthNonStrings THEN "" ELSE ToLowerCase(authv)
             IN  IF auth \in {"api_key", "apikey", "api-key"}
                 THEN SecReturn(ApiKeyQueryDefault)
                 ELSE IF auth \in {"bearer", "oauth2"}
                 THEN SecReturn(HttpBearerDefault)
                 ELSE SecReturn(ApiKeyQueryDefault)

InitSecurity ==
    /\ app \in Apps
    /\ security = SecReturn(<< >>)
    /\ secPc = "input"

\* _loadData line 181: security: connectionToSecurity(a)
ResolveSecurity ==
    /\ secPc = "input"
    /\ security' = connectionToSecurity(app)
    /\ secPc' = "done"
    /\ UNCHANGED app
    /\ SecFrame

(***************************************************************************)
(* The tool compiler: deriveBindingSecurity, buildToolSpec (api/skills.ts  *)
(* lines 381-503) and the decompiler skillToOas (lines 13-79)              *)
(***************************************************************************)
\* How many paths, methods per path, parameters and security references a document has.
MaxPaths == 2

MaxMethods == 2

MaxParams == 3

MaxRefs == 2

\* Sequences over S of length at most n.
SeqUpTo(S, n) == UNION { [1..k -> S] : k \in 0..n }

Range(f) == { f[j] : j \in DOMAIN f }

Injective(f) == \A i, j \in DOMAIN f : f[i] = f[j] => i = j

\* -- the document
PathKeys == {"/current.json", "/forecast.json"}

\* The method keys a path object may declare, in the order they are declared.
MethodKeys == {"get", "post", "delete", "head"}

MethodLists == { f \in SeqUpTo(MethodKeys, MaxMethods) : Injective(f) }

\* The path objects of openApiSpec.paths in the order they are declared.
PathLists ==
    { f \in SeqUpTo([key : PathKeys, methods : MethodLists], MaxPaths) :
        \A i, j \in DOMAIN f : f[i].key = f[j].key => i = j }

\* openApiSpec.paths: absent, or an object with those paths.
NoPaths == [defined |-> FALSE, list |-> << >>]

PathsOf(l) == [defined |-> TRUE, list |-> l]

WeatherPaths == << [key |-> "/current.json", methods |-> << "get" >>] >>

ParamNames == {"id", "path_id"}

\* A parameter's `in`; "undefined" when it declares none.
ParamIns == {"query", "path", "header", "undefined"}

Params == [name : ParamNames, in : ParamIns, required : BOOLEAN]

ParamLists == SeqUpTo(Params, MaxParams)

WeatherParams == << [name |-> "q", in |-> "query", required |-> TRUE] >>

\* x-ibm-security and binding.openapi.security: absent, null, an empty array, a
\* non-empty array, or something that is no array.
ExplicitKinds == {"undefined", "null", "emptyArray", "array", "notArray"}

\* What a security reference's first key names in components.securitySchemes; "notObject"
\* is a reference that is no object (a string, null).
RefKinds ==
    {"apiKey", "httpBearer", "httpBasic", "oauth2", "oauth2Bearer", "openIdConnect",
     "unknown", "notObject"}

RefLists == SeqUpTo(RefKinds, MaxRefs)

\* op.security and openApiSpec.security: absent, something that is no array, or an
\* array of references.
NoRefs == [k |-> "undefined", l |-> << >>]

NotArrayRefs == [k |-> "notArray", l |-> << >>]

RefsOf(l) == [k |-> "array", l |-> l]

MkOas(paths, params, xsec, bsec, opsec, rootsec) ==
    [paths |-> paths, params |-> params, xsec |-> xsec, bsec |-> bsec,
     opsec |-> opsec, rootsec |-> rootsec]

\* The documents: one aspect varies at a time around the weather document.
PathInputs ==
    { MkOas(ps, WeatherParams, "undefined", "undefined", NoRefs, NoRefs) :
        ps \in { PathsOf(l) : l \in PathLists } \cup {NoPaths} }

ParamInputs ==
    { MkOas(PathsOf(WeatherPaths), ps, "undefined", "undefined", NoRefs, NoRefs) :
        ps \in ParamLists }

SecurityInputs ==
    { MkOas(PathsOf(WeatherPaths), WeatherParams, x, b, o, NoRefs) :
        x \in ExplicitKinds, b \in ExplicitKinds,
        o \in {NoRefs, RefsOf(<< "apiKey" >>)} }
    \cup
    { MkOas(PathsOf(WeatherPaths), WeatherParams, "undefined", "undefined", o, r) :
        o \in { RefsOf(l) : l \in RefLists } \cup {NoRefs, NotArrayRefs},
        r \in {NoRefs, NotArrayRefs, RefsOf(<< "apiKey" >>), RefsOf(<< "httpBasic" >>)} }

OasInputs == PathInputs \cup ParamInputs \cup SecurityInputs

\* -- deriveBindingSecurity (lines 381-407)
ExplicitRoot == << "x-ibm-security" >>

ExplicitBinding == << "binding.openapi.security" >>

\* line 382: openApiSpec['x-ibm-security'] ?? openApiSpec.binding?.openapi?.security
ExplicitOf(o) ==
    IF o.xsec \notin {"undefined", "null"}
    THEN [kind |-> o.xsec, list |-> ExplicitRoot]
    ELSE [kind |-> o.bsec, list |-> ExplicitBinding]

\* line 385: op?.security ?? openApiSpec.security ?? []
SecRefsOf(o) == IF o.opsec.k # "undefined" THEN o.opsec
                ELSE IF o.rootsec.k # "undefined" THEN o.rootsec ELSE RefsOf(<< >>)

\* lines 392-404: the entry pushed for one reference, << >> when none is
FlatEntry(ref) ==
    CASE ref = "apiKey"       -> << "apiKey" >>
      [] ref = "httpBearer"   -> << "http/bearer" >>
      [] ref = "httpBasic"    -> << "http/basic" >>
      [] ref = "oauth2Bearer" -> << "http/bearer" >>
      [] OTHER                -> << >>

RECURSIVE Flatten(_)
Flatten(refs) ==
    IF refs = << >> THEN << >> ELSE FlatEntry(Head(refs)) \o Flatten(Tail(refs))

deriveBindingSecurity(o) ==
    IF ExplicitOf(o).kind = "array" THEN ExplicitOf(o).list
    ELSE IF SecRefsOf(o).k = "notArray" THEN << >>
    ELSE Flatten(SecRefsOf(o).l)

\* -- buildToolSpec (lines 409-503)
\* line 425: the methods buildToolSpec looks for, in this order
methods == << "get", "post", "put", "patch", "delete" >>

ToUpperCase(m) ==
    CASE m = "get" -> "GET" [] m = "post" -> "POST" [] m = "put" -> "PUT"
      [] m = "patch" -> "PATCH" [] m = "delete" -> "DELETE" [] m = "head" -> "HEAD"
      [] OTHER -> m

\* The index in `methods` of the operation bound for a path object, 0 when it has none.
BoundMethod(pathObj) ==
    LET S == { j \in 1..Len(methods) : methods[j] \in Range(pathObj.methods) }
    IN  IF S = {} THEN 0 ELSE Min(S)

NoProps == [props |-> << >>, required |-> << >>, usedKeys |-> {}, keys |-> << >>]

\* A compiler that lists every parameter as required.
AddParam_AllRequired(acc, p, i) ==
    LET paramIn == IF p.in = "undefined" THEN "query" ELSE p.in
        propKey == IF p.name \in acc.usedKeys THEN paramIn \o "_" \o p.name ELSE p.name
        prop    == [key |-> propKey, in |-> paramIn, from |-> i,
                    aliasName |-> IF propKey # p.name THEN p.name ELSE "undefined"]
        at      == { j \in 1..Len(acc.props) : acc.props[j].key = propKey }
    IN  [props    |-> IF at = {} THEN Append(acc.props, prop)
                      ELSE [acc.props EXCEPT ![Min(at)] = prop],
         required |-> Append(acc.required, propKey),
         usedKeys |-> acc.usedKeys \cup {propKey},
         keys     |-> Append(acc.keys, propKey)]

\* lines 455-479: one parameter.  `keys` records the key each parameter was given and
\* `from` the parameter a property was written by.
AddParam(acc, p, i) ==
    LET paramIn == IF p.in = "undefined" THEN "query" ELSE p.in
        propKey == IF p.name \in acc.usedKeys THEN paramIn \o "_" \o p.name ELSE p.name
        prop    == [key |-> propKey, in |-> paramIn, from |-> i,
                    aliasName |-> IF propKey # p.name THEN p.name ELSE "undefined"]
        at      == { j \in 1..Len(acc.props) : acc.props[j].key = propKey }
    IN  [props    |-> IF at = {} THEN Append(acc.props, prop)
                      ELSE [acc.props EXCEPT ![Min(at)] = prop],
         required |-> IF p.required THEN Append(acc.required, propKey) ELSE acc.required,
         usedKeys |-> acc.usedKeys \cup {propKey},
         keys     |-> Append(acc.keys, propKey)]

RECURSIVE AddParams(_, _, _)
AddParams(acc, ps, i) ==
    IF i > Len(ps) THEN acc ELSE AddParams(AddParam(acc, ps[i], i), ps, i + 1)

Unbound ==
    [bound |-> FALSE, http_method |-> "undefined", http_path |-> "undefined",
     security |-> << >>, properties |-> << >>, required |-> << >>, keys |-> << >>]

buildToolSpec(o) ==
    IF ~o.paths.defined \/ o.paths.list = << >> THEN Unbound
    ELSE LET pathObj == o.paths.list[1]
             m       == BoundMethod(pathObj)
             built   == AddParams(NoProps, o.params, 1)
         IN  IF m = 0 THEN Unbound
             ELSE [bound |-> TRUE,
                   http_method |-> ToUpperCase(methods[m]),
                   http_path |-> pathObj.key,
                   security |-> deriveBindingSecurity(o),
                   properties |-> built.props,
                   required |-> built.required,
                   keys |-> built.keys]

\* -- detectLocalEndpoints (resources/skillEditor.js lines 461-522) on a document
\* with servers
NoDetect == [set |-> FALSE, method |-> "none", path |-> "none"]

detectLocalEndpoints(o) ==
    IF o.bsec # "undefined" \/ ~o.paths.defined \/ o.paths.list = << >> THEN NoDetect
    ELSE LET pathObj == o.paths.list[1]
         IN  IF pathObj.methods = << >> THEN NoDetect
             ELSE [set |-> TRUE, method |-> ToUpperCase(pathObj.methods[1]),
                   path |-> pathObj.key]

\* -- skillToOas (lines 13-79)
MethodToLowerCase(m) ==
    CASE m = "GET" -> "get" [] m = "POST" -> "post" [] m = "PUT" -> "put"
      [] m = "PATCH" -> "patch" [] m = "DELETE" -> "delete" [] OTHER -> m

\* lines 25-39: the parameter made of one property
ParamOf(t, prop) ==
    [name |-> IF prop.aliasName # "undefined" THEN prop.aliasName ELSE prop.key,
     in |-> prop.in,
     required |-> prop.key \in Range(t.required)]

skillToOas(t) ==
    [method |-> IF t.bound THEN MethodToLowerCase(t.http_method) ELSE "get",
     path |-> IF t.bound THEN t.http_path ELSE "/",
     params |-> [j \in 1..Len(t.properties) |-> ParamOf(t, t.properties[j])],
     security |-> t.security]

NoCopy == [method |-> "get", path |-> "/", params |-> << >>, security |-> << >>]

InitCompile ==
    /\ oas \in OasInputs
    /\ tool = Unbound
    /\ copy = NoCopy
    /\ cpc = "input"

\* deploySkill line 323: buildToolSpec(toolSpec, openApiSpec)
Compile ==
    /\ cpc = "input"
    /\ tool' = buildToolSpec(oas)
    /\ cpc' = "compiled"
    /\ UNCHANGED << oas, copy >>
    /\ CompFrame

\* openTab('test'), skillEditor.js line 590, before the document is saved
DetectLocalEndpoints ==
    /\ cpc = "input"
    /\ detected' = detectLocalEndpoints(oas)
    /\ UNCHANGED compVars
    /\ DetFrame

\* the copy flow: skillToOas(skill) on the tool
Decompile ==
    /\ cpc = "compiled"
    /\ copy' = skillToOas(tool)
    /\ cpc' = "decompiled"
    /\ UNCHANGED << oas, tool >>
    /\ CompFrame

(***************************************************************************)
(* Generation of an OpenAPI document from an observed request: the         *)
(* handlers generateOaS and fetchAndGenerate (SkillEditorPanel.ts          *)
(* lines 1182-1342)                                                        *)
(***************************************************************************)
\* How many parameters an observed request has.
MaxObserved == 2

ObservedNames == {"q", "key", "apiKey", "api_key", "token"}

\* Observed values: strings, and JSON null.
ObservedValues == {"Toronto,On", "abc123", "null"}

\* message.params: the keys of an object are distinct.
ObservedParams ==
    { f \in SeqUpTo([name : ObservedNames, val : ObservedValues], MaxObserved) :
        \A i, j \in DOMAIN f : f[i].name = f[j].name => i = j }

\* message.apiKeyParamName: absent, blank, or a name (the webview sends it trimmed,
\* 'apiKey' when the field is empty).
KeyParamNames == {"undefined", " ", "apiKey", "key", "token"}

GenRequests ==
    [command : {"generateOaS", "fetchAndGenerate"}, method : {"GET", "POST"},
     params : ObservedParams, apiKeyParamName : KeyParamNames]

\* lines 1220, 1295: (apiKeyParamName || 'apiKey').trim() || 'apiKey'
ApiKeyParam(r) ==
    IF r.apiKeyParamName \in {"undefined", " "} THEN "apiKey" ELSE r.apiKeyParamName

ApiKeyAliases == << "key", "apiKey", "api_key" >>

ObservedNamesOf(r) == { r.params[j].name : j \in DOMAIN r.params }

\* lines 1221-1222, 1296-1297
HasApiKeyParam(r) ==
    \E k \in ObservedNamesOf(r) : k = ApiKeyParam(r) \/ k \in Range(ApiKeyAliases)

\* A generator that always names the scheme by the configured parameter name.
SecName_Configured(r) == ApiKeyParam(r)

\* lines 1223-1225, 1298-1300: paramNames.includes(apiKeyParam) ? apiKeyParam
\*   : paramNames.find(k => aliases.includes(k)) || apiKeyParam
SecName(r) ==
    IF HasApiKeyParam(r) /\ ApiKeyParam(r) \in ObservedNamesOf(r) THEN ApiKeyParam(r)
    ELSE IF HasApiKeyParam(r)
    THEN LET S == { j \in DOMAIN r.params : r.params[j].name \in Range(ApiKeyAliases) }
         IN  IF S = {} THEN ApiKeyParam(r) ELSE r.params[Min(S)].name
    ELSE ApiKeyParam(r)

\* lines 1205-1215, 1278-1288: the parameter made of one observed key
OasParam(p) ==
    [name |-> p.name, in |-> "query", required |-> FALSE,
     type |-> IF p.val = "null" THEN "object" ELSE "string",
     default |-> IF p.val = "null" THEN "absent" ELSE p.val]

NoScheme == [attached |-> FALSE, type |-> "none", in |-> "none", name |-> "none"]

NoGen == [method |-> "none", parameters |-> << >>, scheme |-> NoScheme, security |-> << >>]

\* The generated document (its operation's method and parameters, its security)
GeneratedOas(r) ==
    [method |-> IF r.method = "GET" THEN "get" ELSE "post",
     parameters |-> IF r.method = "GET"
                    THEN [j \in DOMAIN r.params |-> OasParam(r.params[j])]
                    ELSE << >>,
     scheme |-> IF HasApiKeyParam(r)
                THEN [attached |-> TRUE, type |-> "apiKey", in |-> "query",
                      name |-> SecName(r)]
                ELSE NoScheme,
     security |-> IF HasApiKeyParam(r) THEN << "ApiKeyAuth" >> ELSE << >>]

InitGenerate ==
    /\ greq \in GenRequests
    /\ gen = NoGen
    /\ gpc = "input"

\* case "generateOaS": _fetchServiceInfo never throws and only supplies title and
\* description.
GenerateOaS ==
    /\ gpc = "input"
    /\ greq.command = "generateOaS"
    /\ gen' = GeneratedOas(greq)
    /\ gpc' = "generated"
    /\ UNCHANGED greq
    /\ GenFrame

\* case "fetchAndGenerate": the request is made first; a failed fetch or a non-OK
\* response ends the handler with an error message and no document.
FetchAndGenerate(fetched) ==
    /\ gpc = "input"
    /\ greq.command = "fetchAndGenerate"
    /\ IF fetched = "ok"
       THEN gen' = GeneratedOas(greq) /\ gpc' = "generated"
       ELSE gen' = gen /\ gpc' = "failed"
    /\ UNCHANGED greq
    /\ GenFrame

(***************************************************************************)
(* updateSkill (api/skills.ts lines 125-180)                               *)
(***************************************************************************)
\* The fields updateSkill copies when they are truthy; permission is always sent.
CopiedFields == {"name", "display_name", "description", "restrictions", "tags"}

PayloadFields == CopiedFields \cup {"permission"}

\* Other fields of an edited document.
OtherFields == {"binding", "input_schema", "output_schema", "connection_id"}

\* The documents: the set of fields that are set (truthy).
SkillJsons == SUBSET (PayloadFields \cup OtherFields)

\* A payload that is the whole document.
updatePayload_Whole(d) == d \cup {"permission"}

\* lines 127-141: the keys of updatePayload
updatePayload(d) == (d \cap CopiedFields) \cup {"permission"}

Statuses == {200, 204, 400, 403, 405, 500}

Bodies == {"json", "empty", "text"}

\* What woFetch does: it rejects, or resolves to a response.
Answers ==
    { [t |-> "throw", status |-> 0, body |-> "none"] }
    \cup { [t |-> "response", status |-> s, body |-> b] : s \in Statuses, b \in Bodies }

\* response.ok
Ok(a) == a.status >= 200 /\ a.status <= 299

\* A client that falls back to PATCH after any failed PUT.
Fallback_AnyFailure(a) == ~Ok(a)

\* line 152: response.status === 405
Fallback(a) == a.status = 405

NoOut == [kind |-> "none", status |-> 0, body |-> "none"]

\* lines 160-179: what updateSkill does with the final response
Settle(a) ==
    IF a.t = "throw" THEN [kind |-> "rejected", status |-> 0, body |-> "none"]
    ELSE IF ~Ok(a) THEN [kind |-> "threw", status |-> a.status, body |-> a.body]
    ELSE [kind |-> "returned", status |-> a.status, body |-> a.body]

InitUpdate ==
    /\ skillJson \in SkillJsons
    /\ ureqs = << >>
    /\ uanswers = << >>
    /\ uout = NoOut
    /\ upc = "input"

\* lines 127-149: the payload is built and the PUT is sent
SendPut ==
    /\ upc = "input"
    /\ ureqs' = Append(ureqs, [method |-> "PUT", keys |-> updatePayload(skillJson)])
    /\ upc' = "put"
    /\ UNCHANGED << skillJson, uanswers, uout >>
    /\ UpdFrame

\* lines 146-163: the PUT is answered; on 405 the PATCH is sent
PutAnswers(a) ==
    /\ upc = "put"
    /\ uanswers' = Append(uanswers, a)
    /\ IF a.t = "response" /\ Fallback(a)
       THEN /\ ureqs' = Append(ureqs, [method |-> "PATCH", keys |-> updatePayload(skillJson)])
            /\ upc' = "patch"
            /\ UNCHANGED uout
       ELSE /\ uout' = Settle(a)
            /\ upc' = "done"
            /\ UNCHANGED ureqs
    /\ UNCHANGED skillJson
    /\ UpdFrame

\* lines 154-179: the PATCH is answered
PatchAnswers(a) ==
    /\ upc = "patch"
    /\ uanswers' = Append(uanswers, a)
    /\ uout' = Settle(a)
    /\ upc' = "done"
    /\ UNCHANGED << skillJson, ureqs >>
    /\ UpdFrame

(***************************************************************************)
(* deploySkill (api/skills.ts lines 321-378)                               *)
(***************************************************************************)
CreateStatuses == {200, 201, 400, 403, 500}

\* The body of a response: a JSON object with an id, a JSON object without one, the
\* JSON value null, text that is not JSON, nothing.
CreateBodies == {"id", "noid", "null", "text", "empty"}

DeployAnswers ==
    { [t |-> "throw", status |-> 0, body |-> "none"] }
    \cup { [t |-> "response", status |-> s, body |-> b] :
             s \in CreateStatuses, b \in CreateBodies }

\* line 341: JSON.parse(text) returns
Parses(body) == body \in {"id", "noid", "null"}

\* line 345: toolData.id
ToolIdOf(body) == IF body = "id" THEN "t-1" ELSE "undefined"

NoDeploy == [kind |-> "none", status |-> 0, body |-> "none", toolId |-> "none"]

DeployThrew(kind, a) == [kind |-> kind, status |-> a.status, body |-> a.body, toolId |-> "none"]

DeploySuccess(id) == [kind |-> "success", status |-> 0, body |-> "none", toolId |-> id]

\* A deployment that fails when the upload fails.
UploadOutcome_Fatal(a, id) ==
    IF a.t = "throw" \/ ~Ok(a) THEN DeployThrew("threw", a) ELSE DeploySuccess(id)

\* lines 370-377: a failed upload is logged; the result is success with the tool id
UploadOutcome(a, id) == DeploySuccess(id)

InitDeploy ==
    /\ dreqs = << >> /\ dans = << >> /\ dzip = "none" /\ dout = NoDeploy
    /\ dpc = "input"

\* lines 323-330: the tool specification is built and the create POST is sent
SendCreate ==
    /\ dpc = "input"
    /\ dreqs' = Append(dreqs, "create")
    /\ dpc' = "create"
    /\ UNCHANGED << dans, dzip, dout >>
    /\ DepFrame

\* lines 327-345: the create POST is answered
CreateAnswers(a) ==
    /\ dpc = "create"
    /\ dans' = Append(dans, a)
    /\ IF a.t = "throw"
       THEN dout' = DeployThrew("rejected", a) /\ dpc' = "done"
       ELSE IF ~Ok(a)
       THEN dout' = DeployThrew("threw", a) /\ dpc' = "done"
       ELSE IF ~Parses(a.body)
       THEN dout' = DeployThrew("parseError", a) /\ dpc' = "done"
       ELSE IF a.body = "null"
       THEN dout' = DeployThrew("typeError", a) /\ dpc' = "done"
       ELSE UNCHANGED dout /\ dpc' = "zip"
    /\ UNCHANGED << dreqs, dzip >>
    /\ DepFrame

\* lines 348-368 and 373-377: the archive is built and the upload is sent; an error
\* raised while building is caught
ZipSettles(ok) ==
    /\ dpc = "zip"
    /\ IF ok
       THEN /\ dzip' = "ok"
            /\ dreqs' = Append(dreqs, "upload")
            /\ dpc' = "upload"
            /\ UNCHANGED dout
       ELSE /\ dzip' = "raised"
            /\ dout' = DeploySuccess(ToolIdOf(dans[1].body))
            /\ dpc' = "done"
            /\ UNCHANGED dreqs
    /\ UNCHANGED dans
    /\ DepFrame

\* lines 362-377: the upload is answered
UploadAnswers(a) ==
    /\ dpc = "upload"
    /\ dans' = Append(dans, a)
    /\ dout' = UploadOutcome(a, ToolIdOf(dans[1].body))
    /\ dpc' = "done"
    /\ UNCHANGED << dreqs, dzip >>
    /\ DepFrame

(***************************************************************************)
(* The API key parameter name: syncForm (skillEditor.js lines 213-243),    *)
(* the Save button in create mode (lines 681-697) and                      *)
(* deriveBindingSecurity on the posted document                            *)
(***************************************************************************)
KeyNames == {"key", "apiKey", "token"}

ApiKeyEntry(n) == [type |-> "apiKey", in |-> "query", name |-> n]

BearerEntry == [type |-> "http", in |-> "header", name |-> "Authorization"]

\* x-ibm-security of a document: absent, or a list of entries.
NoExplicit == [defined |-> FALSE, list |-> << >>]

ExplicitList(l) == [defined |-> TRUE, list |-> l]

\* The loaded documents: x-ibm-security, and the name of an apiKey scheme of
\* components.securitySchemes that the root `security` references ("none": no scheme).
KeyDocs ==
    [xsec   : {NoExplicit, ExplicitList(<< BearerEntry >>)}
                \cup { ExplicitList(<< ApiKeyEntry(n) >>) : n \in KeyNames },
     scheme : {"none"} \cup KeyNames]

\* What the user can type into the field.
TypedNames == KeyNames \cup {"", " "}

\* The connections of the form: none selected, a connection whose security is an
\* apiKey entry, one whose security is a bearer entry, a saved connection id that
\* is not in the connections list.
KeyConnections == {"none", "apiKeyConn", "bearerConn", "unlisted"}

\* conn.security of a listed connection
ConnSecurity(c) ==
    IF c = "apiKeyConn" THEN << ApiKeyEntry("apiKey") >>
    ELSE IF c = "bearerConn" THEN << BearerEntry >>
    ELSE << >>

\* skillEditor.js lines 215-224: the name syncForm infers from the document
InferredName(d) ==
    LET named == { j \in 1..Len(d.xsec.list) : d.xsec.list[j].type = "apiKey" }
    IN  IF named # {} THEN d.xsec.list[Min(named)].name
        ELSE IF d.scheme # "none" THEN d.scheme
        ELSE ""

\* lines 688-689: the name the save handler reads from the field
FieldName(f) == IF f \in {"", " "} THEN "apiKey" ELSE f

\* lines 684-695: x-ibm-security of the posted document
PostedSecurity(d, f, c) ==
    IF c \in {"apiKeyConn", "bearerConn"} /\ Len(ConnSecurity(c)) > 0
    THEN ExplicitList([j \in 1..Len(ConnSecurity(c)) |->
            IF ConnSecurity(c)[j].type = "apiKey"
            THEN ApiKeyEntry(FieldName(f)) ELSE ConnSecurity(c)[j]])
    ELSE d.xsec

\* api/skills.ts lines 381-407 on the posted document
deriveNamedSecurity(x, scheme) ==
    IF x.defined /\ Len(x.list) > 0 THEN x.list
    ELSE IF scheme # "none" THEN << ApiKeyEntry(scheme) >>
    ELSE << >>

InitKey ==
    /\ kdoc \in KeyDocs
    /\ kfield = "apiKey"
    /\ kconn = "none"
    /\ ksec = << >>
    /\ kpc = "input"

\* syncForm, lines 213-243: the field is filled from the document
SyncFormKey ==
    /\ kpc = "input"
    /\ kfield' = IF InferredName(kdoc) # "" THEN InferredName(kdoc)
                 ELSE IF kfield = "" THEN "apiKey" ELSE kfield
    /\ kpc' = "form"
    /\ UNCHANGED << kdoc, kconn, ksec >>
    /\ KeyFrame

\* the user types a name into the field
TypeKeyName(n) ==
    /\ kpc = "form"
    /\ kfield' = n
    /\ UNCHANGED << kdoc, kconn, ksec, kpc >>
    /\ KeyFrame

\* the user selects a connection
SelectConnection(c) ==
    /\ kpc = "form"
    /\ kconn' = c
    /\ UNCHANGED << kdoc, kfield, ksec, kpc >>
    /\ KeyFrame

\* the Save button in create mode (lines 651-697), the createTool handler and
\* deploySkill: the tool is compiled from the posted document
SaveCreate ==
    /\ kpc = "form"
    /\ ksec' = deriveNamedSecurity(PostedSecurity(kdoc, kfield, kconn), kdoc.scheme)
    /\ kpc' = "saved"
    /\ UNCHANGED << kdoc, kfield, kconn >>
    /\ KeyFrame

(***************************************************************************)
(* The parameter table of the create form (skillEditor.js): rendering by   *)
(* syncForm / renderParamsFromSchema, writing back by applyParamEditsToJson*)
(* A name is a sequence of characters: "a" stands for a letter or digit,   *)
(* " " for white space, "-" for any other character.                       *)
(***************************************************************************)
MaxNameLen == 3

MaxRows == 2

MaxEdits == 1

Chars == {"a", "_", " ", "-"}

TypedParamNames == SeqUpTo(Chars, MaxNameLen)

RECURSIVE DropLeading(_, _)
DropLeading(s, c) ==
    IF s # << >> /\ Head(s) = c THEN DropLeading(Tail(s), c) ELSE s

RECURSIVE DropTrailing(_, _)
DropTrailing(s, c) ==
    IF s # << >> /\ s[Len(s)] = c THEN DropTrailing(SubSeq(s, 1, Len(s) - 1), c) ELSE s

\* String.prototype.trim
Trim(s) == DropTrailing(DropLeading(s, " "), " ")

\* .replace(/\s+/g, '_')
RECURSIVE ReplaceSpaces(_)
ReplaceSpaces(s) ==
    IF s = << >> THEN << >>
    ELSE IF Head(s) = " " THEN << "_" >> \o ReplaceSpaces(DropLeading(s, " "))
    ELSE << Head(s) >> \o ReplaceSpaces(Tail(s))

\* .replace(/[^a-zA-Z0-9_]/g, '_')
ReplaceOthers(s) == [j \in DOMAIN s |-> IF s[j] \in {"a", "_"} THEN s[j] ELSE "_"]

\* line 350: the key made of a typed name; the empty sequence stands for null
SanitizeKey(raw) ==
    DropTrailing(DropLeading(ReplaceOthers(ReplaceSpaces(Trim(raw))), "_"), "_")

\* A default value: its JSON type and its text.
DefNone == [t |-> "none", v |-> ""]

DefValues ==
    { DefNone, [t |-> "null", v |-> "null"], [t |-> "string", v |-> "5"],
      [t |-> "number", v |-> "5"], [t |-> "string", v |-> "abc"],
      [t |-> "boolean", v |-> "true"], [t |-> "string", v |-> ""] }

\* What the user can type into a default field.
DefTexts == {"", " ", "5", "abc", "true"}

\* String(default) of lines 298 and 423
DefaultText(d) == IF d.t \in {"none", "null"} THEN "" ELSE d.v

\* lines 327-335
parseParamDefault(v) ==
    LET t == IF v = " " THEN "" ELSE v
    IN  IF t = "" THEN DefNone
        ELSE IF t \in {"true", "false"} THEN [t |-> "boolean", v |-> t]
        ELSE IF t = "5" THEN [t |-> "number", v |-> t]
        ELSE [t |-> "string", v |-> t]

\* A parameter of a document.  In the bound dialect `name` is the property key and
\* `alias` its aliasName (empty: none).
BaseParam ==
    [name |-> << "a" >>, in |-> "query", type |-> "string", required |-> FALSE,
     def |-> DefNone, title |-> FALSE, enum |-> FALSE, alias |-> << >>]

DocParams ==
    { [BaseParam EXCEPT !.in = i] : i \in {"query", "path", "header", "cookie", "undefined"} }
    \cup { [BaseParam EXCEPT !.type = t] : t \in {"integer", "array", "undefined"} }
    \cup { [BaseParam EXCEPT !.def = d] : d \in DefValues }
    \cup { [BaseParam EXCEPT !.required = TRUE], [BaseParam EXCEPT !.title = TRUE],
           [BaseParam EXCEPT !.enum = TRUE],
           [BaseParam EXCEPT !.name = << "a", "-", "a" >>] }

\* A property that buildToolSpec gave a prefixed key and an aliasName.
AliasedParam ==
    [BaseParam EXCEPT !.name = << "a", "_", "a" >>, !.in = "path", !.alias = << "a" >>]

\* The second parameter of a document has another name than the first.
Second(p) == [p EXCEPT !.name = << "a", "a" >>]

DocParamLists(fmt) ==
    LET P == IF fmt = "schema" THEN DocParams \cup {AliasedParam} ELSE DocParams
    IN  {<< >>} \cup { << p >> : p \in P }
        \cup { << p, Second(q) >> :
                 p \in P, q \in {BaseParam, [BaseParam EXCEPT !.required = TRUE]} }

BlankRow == [name |-> << >>, in |-> "query", type |-> "string", required |-> FALSE, def |-> ""]

\* the option a select shows: the first one when no option is marked selected
SelectIn(i) == IF i \in {"query", "header", "path"} THEN i ELSE "query"

SelectType(t) == IF t \in {"string", "integer", "number", "boolean"} THEN t ELSE "string"

\* lines 296-307 (paths) and 420-432 (schema): one row of the table
RenderRow(fmt, p) ==
    [name     |-> IF fmt = "schema" /\ p.alias # << >> THEN p.alias ELSE p.name,
     in       |-> SelectIn(p.in),
     type     |-> SelectType(p.type),
     required |-> p.required,
     def      |-> DefaultText(p.def)]

NoWritten == << >>

\* lines 385-394: the parameter written from a row of a paths table
PathsParam(r, i) ==
    [name |-> Trim(r.name), in |-> r.in, type |-> r.type, required |-> r.required,
     def |-> parseParamDefault(r.def), title |-> FALSE, enum |-> FALSE,
     alias |-> << >>, from |-> i]

\* lines 357-365: the property written from a row of a schema table
SchemaProp(r, i) ==
    [name |-> SanitizeKey(r.name), in |-> r.in, type |-> r.type, required |-> r.required,
     def |-> parseParamDefault(r.def), title |-> FALSE, enum |-> FALSE,
     alias |-> << >>, from |-> i]

\* props[key] = prop: a key written twice keeps its place and takes the later value
PutProp(acc, prop) ==
    LET at == { j \in 1..Len(acc) : acc[j].name = prop.name }
    IN  IF at = {} THEN Append(acc, prop) ELSE [acc EXCEPT ![Min(at)] = prop]

\* lines 337-399
RECURSIVE applyParamEditsToJson(_, _, _, _)
applyParamEditsToJson(fmt, rows, i, acc) ==
    IF i > Len(rows) THEN acc
    ELSE IF fmt = "schema"
    THEN IF SanitizeKey(rows[i].name) = << >>
         THEN applyParamEditsToJson(fmt, rows, i + 1, acc)
         ELSE applyParamEditsToJson(fmt, rows, i + 1, PutProp(acc, SchemaProp(rows[i], i)))
    ELSE IF Trim(rows[i].name) = << >>
         THEN applyParamEditsToJson(fmt, rows, i + 1, acc)
         ELSE applyParamEditsToJson(fmt, rows, i + 1, Append(acc, PathsParam(rows[i], i)))

InitTable ==
    /\ tfmt \in {"paths", "schema"}
    /\ tparams \in DocParamLists(tfmt)
    /\ trows = << >>
    /\ twritten = NoWritten
    /\ tedits = 0
    /\ tpc = "input"

\* syncForm in create mode, lines 260-319: the table is rendered from the document
RenderTable ==
    /\ tpc = "input"
    /\ trows' = [j \in 1..Len(tparams) |-> RenderRow(tfmt, tparams[j])]
    /\ tpc' = "form"
    /\ UNCHANGED << tfmt, tparams, twritten, tedits >>
    /\ TblFrame

\* the user types a name into a row
TypeParamName(i, n) ==
    /\ tpc = "form" /\ tedits < MaxEdits /\ i \in 1..Len(trows)
    /\ trows' = [trows EXCEPT ![i].name = n]
    /\ tedits' = tedits + 1
    /\ UNCHANGED << tfmt, tparams, twritten, tpc >>
    /\ TblFrame

\* the user types into the default field of a row
TypeParamDefault(i, t) ==
    /\ tpc = "form" /\ tedits < MaxEdits /\ i \in 1..Len(trows)
    /\ trows' = [trows EXCEPT ![i].def = t]
    /\ tedits' = tedits + 1
    /\ UNCHANGED << tfmt, tparams, twritten, tpc >>
    /\ TblFrame

\* "+ Add parameter", lines 622-627
AddParamRow ==
    /\ tpc = "form" /\ tedits < MaxEdits /\ Len(trows) <= MaxRows
    /\ trows' = Append(trows, BlankRow)
    /\ tedits' = tedits + 1
    /\ UNCHANGED << tfmt, tparams, twritten, tpc >>
    /\ TblFrame

\* openTab('json'), lines 540-586 (and the Save button, line 680): the rows are
\* written back
OpenJsonTab ==
    /\ tpc = "form"
    /\ twritten' = applyParamEditsToJson(tfmt, trows, 1, << >>)
    /\ tpc' = "json"
    /\ UNCHANGED << tfmt, tparams, trows, tedits >>
    /\ TblFrame

(***************************************************************************)
(* The createAgent handler of AgentEditorPanel (SkillEditorPanel.ts lines  *)
(* 1857-1873), createAgent (api/agents.ts lines 117-135), the createTool   *)
(* handler (lines 1008-1040) with deploySkill, and the remote service: a   *)
(* create request answered OK has created the entity, a request answered   *)
(* otherwise has changed nothing.                                          *)
(***************************************************************************)
ToolChoices == { << >>, << "t1" >>, << "t1", "t2" >> }

\* The answers to a create POST: the request raised, a non-OK status, OK with a JSON
\* body holding an id, OK with a JSON body without id, OK with a body that is not
\* JSON (or empty).
CreateOutcomes == {"throw", "400", "500", "ok_id", "ok_noid", "ok_text"}

\* The answers to the update of the new agent.
UpdateOutcomes == {"throw", "400", "404", "500", "ok"}

CreatedOk(a) == a \in {"ok_id", "ok_noid", "ok_text"}

NewAgent(tools) == [kind |-> "agent", id |-> "new", tools |-> tools]

NewTool == [kind |-> "tool", id |-> "new", tools |-> << >>]

\* What the remote service may hold before.
Existing ==
    { [kind |-> "agent", id |-> "old", tools |-> << "t1" >>],
      [kind |-> "tool", id |-> "t1", tools |-> << >>] }

InitCreate ==
    /\ ckind \in {"agent", "tool"}
    /\ ctools \in ToolChoices
    /\ ckind = "tool" => ctools = << >>
    /\ cbefore \in SUBSET Existing
    /\ cremote = cbefore
    /\ canswers = << >>
    /\ creport = "none"
    /\ crpc = "input"

\* createAgent handler line 1860: the create POST is sent
CreatePost ==
    /\ crpc = "input" /\ ckind = "agent"
    /\ crpc' = "creating"
    /\ UNCHANGED << ckind, ctools, cbefore, cremote, canswers, creport >>
    /\ CrFrame

\* createTool handler lines 1009-1033: the dialog is answered; on the confirming
\* option the create POST is sent
ToolDialogAnswered(confirmed) ==
    /\ crpc = "input" /\ ckind = "tool"
    /\ crpc' = IF confirmed THEN "creating" ELSE "done"
    /\ UNCHANGED << ckind, ctools, cbefore, cremote, canswers, creport >>
    /\ CrFrame

\* createAgent lines 119-134 and handler lines 1860-1872
AgentCreateAnswers(a) ==
    /\ crpc = "creating" /\ ckind = "agent"
    /\ canswers' = Append(canswers, a)
    /\ IF ~CreatedOk(a)
       THEN /\ creport' = "failure" /\ crpc' = "done"
            /\ UNCHANGED cremote
       ELSE /\ cremote' = cremote \cup {NewAgent(<< >>)}
            /\ IF Len(ctools) > 0 /\ a = "ok_id"
               THEN crpc' = "updating" /\ UNCHANGED creport
               ELSE creport' = "success" /\ crpc' = "done"
    /\ UNCHANGED << ckind, ctools, cbefore >>
    /\ CrFrame

\* handler lines 1863-1872: updateAgent(result.id, { tools }) is answered
AgentUpdateAnswers(u) ==
    /\ crpc = "updating"
    /\ canswers' = Append(canswers, u)
    /\ IF u = "ok"
       THEN /\ cremote' = (cremote \ {NewAgent(<< >>)}) \cup {NewAgent(ctools)}
            /\ creport' = "success"
       ELSE /\ creport' = "failure"
            /\ UNCHANGED cremote
    /\ crpc' = "done"
    /\ UNCHANGED << ckind, ctools, cbefore >>
    /\ CrFrame

\* deploySkill lines 327-345 and 377, handler lines 1033-1039
ToolCreateAnswers(a) ==
    /\ crpc = "creating" /\ ckind = "tool"
    /\ canswers' = Append(canswers, a)
    /\ cremote' = IF CreatedOk(a) THEN cremote \cup {NewTool} ELSE cremote
    /\ creport' = IF a \in {"ok_id", "ok_noid"} THEN "success" ELSE "failure"
    /\ crpc' = "done"
    /\ UNCHANGED << ckind, ctools, cbefore >>
    /\ CrFrame

(***************************************************************************)
(* The name of a tool across an edit-mode Update: syncForm (skillEditor.js *)
(* lines 188-197), the Save button (lines 663-667) and updateSkill         *)
(* (api/skills.ts lines 127-134).  A name is a sequence of characters:     *)
(* "w" and "W" are letters, "1" a digit, " " any other character.          *)
(***************************************************************************)
MaxToolNameLen == 2

NameChars == {"w", "W", "1", "_", " "}

Texts == SeqUpTo(NameChars, MaxToolNameLen)

\* The names the service accepts: letters, digits and underscores, no leading digit.
MachineNames ==
    { s \in Texts : /\ s # << >>
                    /\ \A j \in DOMAIN s : s[j] \in {"w", "W", "1", "_"}
                    /\ s[1] # "1" }

\* The loaded tools; an empty display_name stands for an absent one.
LoadedTools == [name : MachineNames, display_name : Texts]

RECURSIVE DropLeadingNonLetters(_)
DropLeadingNonLetters(s) ==
    IF s # << >> /\ Head(s) \notin {"w", "W", "_"}
    THEN DropLeadingNonLetters(Tail(s)) ELSE s

\* updateSkill lines 131-133:
\* .replace(/[^a-zA-Z0-9_]/g, '_').replace(/^[^a-zA-Z_]+/, '')
SanitizeName(s) ==
    DropLeadingNonLetters([j \in DOMAIN s |-> IF s[j] = " " THEN "_" ELSE s[j]])

\* skillEditor.js line 189: data.display_name || data.name
NameField(t) == IF t.display_name # << >> THEN t.display_name ELSE t.name

NotSent == [sent |-> FALSE, name |-> << >>]

InitRename ==
    /\ rtool \in LoadedTools
    /\ rfield = << >>
    /\ redited = FALSE
    /\ rsent = NotSent
    /\ rpc = "input"

\* syncForm in edit mode
SyncFormName ==
    /\ rpc = "input"
    /\ rfield' = NameField(rtool)
    /\ rpc' = "form"
    /\ UNCHANGED << rtool, redited, rsent >>
    /\ RenFrame

\* the user types into the field `name`
TypeToolName(n) ==
    /\ rpc = "form" /\ ~redited
    /\ rfield' = n
    /\ redited' = TRUE
    /\ UNCHANGED << rtool, rsent, rpc >>
    /\ RenFrame

\* the Update button, the confirmed saveSkill handler and updateSkill: currentJson.name
\* is the field; the payload holds its sanitized form when it is not empty
PressUpdate ==
    /\ rpc = "form"
    /\ rsent' = IF rfield # << >> THEN [sent |-> TRUE, name |-> SanitizeName(rfield)]
                ELSE NotSent
    /\ rpc' = "sent"
    /\ UNCHANGED << rtool, rfield, redited >>
    /\ RenFrame

(***************************************************************************)
(* Concurrent remote tests: ensureTestAgentForTool (api/agents.ts lines    *)
(* 65-106) followed by the submission of the run (SkillEditorPanel.ts      *)
(* lines 1170-1171, extension.ts lines 313-320).  Each test is one handler *)
(* invocation; a step is the service answering one of its requests.        *)
(***************************************************************************)
MaxTests == 2

Tests == 1..MaxTests

TestTools == {"t1", "t2"}

\* The agents named WxoBuilderTestAgent before the tests start.
InitialAgents == { << >>, << << >> >>, << << "t1" >> >>, << << "t2" >> >> }

NotSubmitted == [done |-> FALSE, tools |-> << >>]

InitAgents ==
    /\ atool \in [Tests -> TestTools]
    /\ aremote \in InitialAgents
    /\ acreated = 0
    /\ apc = [p \in Tests |-> "start"]
    /\ aid = [p \in Tests |-> 0]
    /\ asub = [p \in Tests |-> NotSubmitted]

\* listAgents answers; agents.find returns the first agent of that name
ListAgentsAnswers(p) ==
    /\ apc[p] = "start"
    /\ IF aremote = << >>
       THEN /\ apc' = [apc EXCEPT ![p] = "create"]
            /\ UNCHANGED aid
       ELSE /\ apc' = [apc EXCEPT ![p] = "update"]
            /\ aid' = [aid EXCEPT ![p] = 1]
    /\ UNCHANGED << atool, aremote, acreated, asub >>
    /\ AgFrame

\* getDefaultModelId and createAgent answer: a new agent without tools
TestAgentCreated(p) ==
    /\ apc[p] = "create"
    /\ aremote' = Append(aremote, << >>)
    /\ acreated' = acreated + 1
    /\ aid' = [aid EXCEPT ![p] = Len(aremote) + 1]
    /\ apc' = [apc EXCEPT ![p] = "update"]
    /\ UNCHANGED << atool, asub >>
    /\ AgFrame

\* updateAgent(agentId, { tools: [toolId] }) answers
TestAgentUpdated(p) ==
    /\ apc[p] = "update"
    /\ aremote' = [aremote EXCEPT ![aid[p]] = << atool[p] >>]
    /\ apc' = [apc EXCEPT ![p] = "submit"]
    /\ UNCHANGED << atool, acreated, aid, asub >>
    /\ AgFrame

\* invokeToolRemote(toolId, params, agentId): the service receives the run
SubmitRun(p) ==
    /\ apc[p] = "submit"
    /\ asub' = [asub EXCEPT ![p] = [done |-> TRUE, tools |-> aremote[aid[p]]]]
    /\ apc' = [apc EXCEPT ![p] = "done"]
    /\ UNCHANGED << atool, aremote, acreated, aid >>
    /\ AgFrame

(***************************************************************************)
(* The specifications                                                      *)
(***************************************************************************)
\* The groups of variables a specification does not use stay at these values.
InvokeIdle ==
    /\ cmd = "none" /\ entityId = "none" /\ pc = "off" /\ threadId = "unset"
    /\ submitRes = "none" /\ pollCount = 0 /\ fetches = 0 /\ delays = 0 /\ elapsed = 0
    /\ messages = << >> /\ lastPoll = "none" /\ seenAssistant = FALSE
    /\ outcome = "none" /\ err = "none" /\ data = NoData /\ panelLive = FALSE
    /\ posted = << >> /\ pollsAfterDispose = 0 /\ disposedAt = "none"

ValIdle == doc = ValidBoundDoc /\ errors = << >> /\ vpc = "off"

SaveIdle ==
    /\ smode = "off"
    /\ saves = [h \in 1..MaxSaves |-> NoSave]
    /\ spanelLive = FALSE

PanelIdle ==
    /\ editor = "off" /\ panels = << >> /\ currentPanel = 0 /\ ops = {}
    /\ pendingRender = {} /\ pendingReveal = FALSE /\ revealFailed = FALSE

SecIdle ==
    /\ app = [present |-> FALSE, scheme |-> "null", auth |-> "undefined"]
    /\ security = SecReturn(<< >>)
    /\ secPc = "off"

CompIdle ==
    /\ oas = MkOas(NoPaths, << >>, "undefined", "undefined", NoRefs, NoRefs)
    /\ tool = Unbound
    /\ copy = NoCopy
    /\ cpc = "off"

GenIdle ==
    /\ greq = [command |-> "none", method |-> "GET", params |-> << >>,
               apiKeyParamName |-> "undefined"]
    /\ gen = NoGen
    /\ gpc = "off"

UpdIdle ==
    /\ skillJson = {} /\ ureqs = << >> /\ uanswers = << >> /\ uout = NoOut
    /\ upc = "off"

PureIdle == SecIdle /\ CompIdle /\ GenIdle /\ UpdIdle

UiIdle == InvokeIdle /\ ValIdle /\ SaveIdle /\ PanelIdle

DepIdle ==
    /\ dreqs = << >> /\ dans = << >> /\ dzip = "none" /\ dout = NoDeploy
    /\ dpc = "off"

KeyIdle ==
    /\ kdoc = [xsec |-> NoExplicit, scheme |-> "none"]
    /\ kfield = "apiKey" /\ kconn = "none" /\ ksec = << >> /\ kpc = "off"

TblIdle ==
    /\ tfmt = "paths" /\ tparams = << >> /\ trows = << >> /\ twritten = NoWritten
    /\ tedits = 0 /\ tpc = "off"

ExtIdle == xblocks = << >> /\ xdata = NoData /\ xpc = "off"

CrIdle ==
    /\ ckind = "agent" /\ ctools = << >> /\ cbefore = {} /\ cremote = {}
    /\ canswers = << >> /\ creport = "none"
    /\ crpc = "off"

DetIdle == detected = NoDetect

RenIdle ==
    /\ rtool = [name |-> << "w" >>, display_name |-> << >>]
    /\ rfield = << >> /\ redited = FALSE /\ rsent = NotSent /\ rpc = "off"

AgIdle ==
    /\ atool = [p \in Tests |-> "t1"]
    /\ aremote = << >> /\ acreated = 0
    /\ apc = [p \in Tests |-> "off"]
    /\ aid = [p \in Tests |-> 0]
    /\ asub = [p \in Tests |-> NotSubmitted]

LateIdle ==
    DepIdle /\ KeyIdle /\ TblIdle /\ ExtIdle /\ CrIdle /\ DetIdle /\ RenIdle /\ AgIdle

\* -- remote invocation
\* The steps that settle on their own: timers fire and requests are answered or fail.
InvokeProgress ==
    \/ \E ok \in BOOLEAN : EnsureReturns(ok)
    \/ \E r \in SubmitResponses : SubmitReturns(r)
    \/ DelayElapses
    \/ \E resp \in PollResponses : PollReturns(resp)

NextInvoke ==
    \/ \E c \in Commands, cfgAgent \in BOOLEAN : Receive(c, cfgAgent)
    \/ \E ok \in BOOLEAN : EnsureReturns(ok)
    \/ \E r \in SubmitResponses : SubmitReturns(r)
    \/ DelayElapses
    \/ \E resp \in PollResponses : PollReturns(resp)
    \/ DisposePanel

InvokeStart == InitInvoke /\ ValIdle /\ SaveIdle /\ PanelIdle /\ PureIdle /\ LateIdle

SpecInvoke == InvokeStart /\ [][NextInvoke]_vars /\ WF_vars(InvokeProgress)

\* -- validator
NextValidate == ValidateOpenAPI

ValidateStart == InitValidate /\ InvokeIdle /\ SaveIdle /\ PanelIdle /\ PureIdle /\ LateIdle

SpecValidate == ValidateStart /\ [][NextValidate]_vars

\* -- save / create
NextSave ==
    \/ \E h \in 1..MaxSaves, d \in CreateDocs \cup EditDocs : SaveMessage(h, d)
    \/ \E h \in 1..MaxSaves, c \in {"Update Anyway", "Update", "Create Anyway", "Create",
                                    "Cancel", "undefined"} : DialogAnswered(h, c)
    \/ \E h \in 1..MaxSaves, o \in RemoteOutcomes : RemoteSettles(h, o)

SaveStart == InitSave /\ InvokeIdle /\ ValIdle /\ PanelIdle /\ PureIdle /\ LateIdle

SpecSave == SaveStart /\ [][NextSave]_vars

\* -- panels
NextPanel ==
    \/ \E id \in Ids, custom \in BOOLEAN : render(id, custom)
    \/ \E id \in Ids : RenderResumes(id)
    \/ RevealAfterLoad
    \/ \E p \in 1..MaxPanels : UserCloses(p)
    \/ \E p \in 1..MaxPanels : CloseMessage(p)
    \/ \E p \in 1..MaxPanels : HandlerAwaits(p)
    \/ \E p \in 1..MaxPanels, ok \in BOOLEAN : HandlerResumes(p, ok)

PanelStart == InitPanel /\ InvokeIdle /\ ValIdle /\ SaveIdle /\ PureIdle /\ LateIdle

SpecPanel == PanelStart /\ [][NextPanel]_vars

\* -- connectionToSecurity
NextSecurity == ResolveSecurity

SecurityStart == InitSecurity /\ UiIdle /\ CompIdle /\ GenIdle /\ UpdIdle /\ LateIdle

SpecSecurity == SecurityStart /\ [][NextSecurity]_vars

\* -- the tool compiler
NextCompile ==
    \/ DetectLocalEndpoints
    \/ Compile
    \/ Decompile

CompileStart == InitCompile /\ UiIdle /\ SecIdle /\ GenIdle /\ UpdIdle /\ LateIdle

SpecCompile == CompileStart /\ [][NextCompile]_vars

\* -- generation
NextGenerate ==
    \/ GenerateOaS
    \/ \E fetched \in {"ok", "notok", "throw"} : FetchAndGenerate(fetched)

GenerateStart == InitGenerate /\ UiIdle /\ SecIdle /\ CompIdle /\ UpdIdle /\ LateIdle

SpecGenerate == GenerateStart /\ [][NextGenerate]_vars

\* -- updateSkill
NextUpdate ==
    \/ SendPut
    \/ \E a \in Answers : PutAnswers(a)
    \/ \E a \in Answers : PatchAnswers(a)

UpdateStart == InitUpdate /\ UiIdle /\ SecIdle /\ CompIdle /\ GenIdle /\ LateIdle

SpecUpdate == UpdateStart /\ [][NextUpdate]_vars

\* -- deploySkill
NextDeploy ==
    \/ SendCreate
    \/ \E a \in DeployAnswers : CreateAnswers(a)
    \/ \E ok \in BOOLEAN : ZipSettles(ok)
    \/ \E a \in DeployAnswers : UploadAnswers(a)

DeployStart == InitDeploy /\ UiIdle /\ PureIdle /\ KeyIdle /\ TblIdle /\ ExtIdle /\ CrIdle /\ DetIdle /\ RenIdle /\ AgIdle

SpecDeploy == DeployStart /\ [][NextDeploy]_vars

\* -- the API key parameter name
NextKey ==
    \/ SyncFormKey
    \/ \E n \in TypedNames : TypeKeyName(n)
    \/ \E c \in KeyConnections : SelectConnection(c)
    \/ SaveCreate

KeyStart == InitKey /\ UiIdle /\ PureIdle /\ DepIdle /\ TblIdle /\ ExtIdle /\ CrIdle /\ DetIdle /\ RenIdle /\ AgIdle

SpecKey == KeyStart /\ [][NextKey]_vars

\* -- the parameter table
NextTable ==
    \/ RenderTable
    \/ \E i \in 1..(MaxRows + 1), n \in TypedParamNames : TypeParamName(i, n)
    \/ \E i \in 1..(MaxRows + 1), t \in DefTexts : TypeParamDefault(i, t)
    \/ AddParamRow
    \/ OpenJsonTab

TableStart == InitTable /\ UiIdle /\ PureIdle /\ DepIdle /\ KeyIdle /\ ExtIdle /\ CrIdle /\ DetIdle /\ RenIdle /\ AgIdle

SpecTable == TableStart /\ [][NextTable]_vars

\* -- the result extraction
NextExtract == Extract

ExtractStart == InitExtract /\ UiIdle /\ PureIdle /\ DepIdle /\ KeyIdle /\ TblIdle /\ CrIdle /\ DetIdle /\ RenIdle /\ AgIdle

SpecExtract == ExtractStart /\ [][NextExtract]_vars

\* -- creation
NextCreate ==
    \/ CreatePost
    \/ \E confirmed \in BOOLEAN : ToolDialogAnswered(confirmed)
    \/ \E a \in CreateOutcomes : AgentCreateAnswers(a)
    \/ \E u \in UpdateOutcomes : AgentUpdateAnswers(u)
    \/ \E a \in CreateOutcomes : ToolCreateAnswers(a)

CreateStart == InitCreate /\ UiIdle /\ PureIdle /\ DepIdle /\ KeyIdle /\ TblIdle /\ ExtIdle /\ DetIdle /\ RenIdle /\ AgIdle

SpecCreate == CreateStart /\ [][NextCreate]_vars

\* -- the name of an edited tool
NextRename ==
    \/ SyncFormName
    \/ \E n \in Texts : TypeToolName(n)
    \/ PressUpdate

RenameStart ==
    InitRename /\ UiIdle /\ PureIdle /\ DepIdle /\ KeyIdle /\ TblIdle /\ ExtIdle
        /\ CrIdle /\ DetIdle /\ AgIdle

SpecRename == RenameStart /\ [][NextRename]_vars

\* -- concurrent remote tests
NextAgents ==
    \/ \E p \in Tests : ListAgentsAnswers(p)
    \/ \E p \in Tests : TestAgentCreated(p)
    \/ \E p \in Tests : TestAgentUpdated(p)
    \/ \E p \in Tests : SubmitRun(p)

AgentsStart ==
    InitAgents /\ UiIdle /\ PureIdle /\ DepIdle /\ KeyIdle /\ TblIdle /\ ExtIdle
        /\ CrIdle /\ DetIdle /\ RenIdle

SpecAgents == AgentsStart /\ [][NextAgents]_vars

(***************************************************************************)
(* Claims about the remote invocation protocol (checked under SpecInvoke)  *)
(***************************************************************************)
MaxPolls == IF IsTool THEN maxAttempts ELSE AgentMaxPolls

\* C1: invokeToolRemote, after a submit that returned a thread id, when no poll answer
\* ever held an assistant message, ends having made exactly 12 fetches, each after one
\* delay, and returns a value instead of raising.
C1_ToolPollBound ==
    (IsTool /\ pc = "done" /\ submitRes = "ok_thread" /\ ~seenAssistant)
        => (fetches = maxAttempts /\ delays = maxAttempts /\ outcome = "returned")

\* C2: for the tool invocation and the agent chat alike, a submit answer that is not
\* successful, or successful without a thread identifier, ends the operation in failure
\* at once, and no thread poll is ever issued.
C2_SubmitFailureEndsAtOnce ==
    submitRes \in {"notok", "ok_nothread"}
        => (pc = "done" /\ outcome = "threw" /\ fetches = 0)

\* C3: when invokeToolRemote used up its attempts without ever seeing an assistant
\* message, the data it returns is the accumulated message list, never the content of one
\* non-assistant message.
C3_ExhaustedReturnsMessageList ==
    (IsTool /\ pc = "done" /\ outcome = "returned" /\ ~seenAssistant)
        => (data.kind \in {"messages", "placeholder"} /\ data.msgs = messages
            /\ data.fromRole = "none")

\* C4: a poll attempt that fails (a non-OK answer, or the fetch, the token acquisition
\* or the body parse raising) never ends the operation: polling without an assistant
\* message ends only when every attempt is used up.
C4_FailedPollIsRetried ==
    (pc = "done" /\ submitRes = "ok_thread" /\ fetches > 0 /\ ~seenAssistant)
        => fetches = MaxPolls

\* C5: the agent chat always terminates: after a successful submit it polls at most 15
\* times, each poll after one delay of 2 s, it returns at the first poll whose message
\* list (data.data || data) holds an assistant message, and when the 15th poll shows
\* none it ends with the timeout error.
C5_AgentChatTerminates ==
    /\ [](cmd = "invokeAgent" =>
            /\ fetches <= AgentMaxPolls
            /\ delays = fetches
            /\ elapsed = fetches * AgentDelayMs
            /\ pollCount <= AgentMaxPolls
            /\ seenAssistant => (pc = "done" /\ outcome = "returned")
            /\ (pc = "done" /\ fetches = AgentMaxPolls /\ ~seenAssistant
                    /\ lastPoll # "raised")
                 => (outcome = "threw" /\ err = "timeout"))
    /\ ((cmd = "invokeAgent" /\ pc \in {"submit", "delay", "fetch"}) ~> (pc = "done"))

\* C5's case: an agent chat that timed out after its 15th poll.
C5_Witness ==
    /\ cmd = "invokeAgent"
    /\ pc = "done"
    /\ submitRes = "ok_thread"
    /\ fetches = AgentMaxPolls
    /\ outcome = "threw"
    /\ err = "timeout"

\* C6: once the panel that started a remote test or an agent chat is disposed while the
\* poll loop is in flight, no further poll attempt is made and no result event is posted
\* to the disposed panel.
C6_DisposedPanelStopsPolling ==
    disposedAt \in {"delay", "fetch"}
        => /\ pollsAfterDispose = 0
           /\ \A j \in 1..Len(posted) : ~posted[j].toDisposed

\* C26: a poll answers from the first message with role assistant of the fetched
\* thread message list, for tool invocation and agent chat alike: when the list
\* holds several assistant messages the answer is taken from the first one.
C26_FirstAssistantMessage ==
    [][ \A resp \in PollResponses :
          (PollReturns(resp) /\ outcome' = "returned" /\ data'.fromRole = "assistant")
              => data'.fromIdx =
                    FindAssistant(IF IsTool THEN ToolParse(resp) ELSE AgentParse(resp)) ]_vars

\* The blocks of one type, in the order of the content.
BlocksOfType(b, type) == { j \in 1..Len(b) : b[j].type = type }

\* content ?? output ?? result of a tool_result block, "null" when it has none
ResultValue(blk) ==
    IF blk.content # "null" THEN blk.content
    ELSE IF blk.output # "null" THEN blk.output
    ELSE blk.result

\* C25 (checked under SpecExtract): the extraction follows a strict precedence over
\* the content blocks of the assistant message, whatever their order: a tool_result
\* block wins and its content / output / result is the data; else the value of the
\* text block; else a tool_use block's content; else the raw content array; and the
\* data is never null.
C25_ExtractionPrecedence ==
    xpc = "done" =>
        LET tr == BlocksOfType(xblocks, "tool_result")
            tx == BlocksOfType(xblocks, "text")
            tu == BlocksOfType(xblocks, "tool_use")
        IN  /\ xdata.kind # "none" /\ xdata.val # "null"
            /\ xdata.fromRole = "assistant"
            /\ tr # {} =>
                  /\ xdata.kind = "tool_result"
                  /\ ResultValue(xblocks[Min(tr)]) # "null"
                        => xdata.val = ResultValue(xblocks[Min(tr)])
            /\ (tr = {} /\ tx # {} /\ xblocks[Min(tx)].tk # "null") =>
                  /\ xdata.kind = "text"
                  /\ xblocks[Min(tx)].text # "null" => xdata.val = xblocks[Min(tx)].text
            /\ (tr = {} /\ (tx = {} \/ xblocks[Min(tx)].tk = "null") /\ tu # {}) =>
                  /\ xdata.kind = "tool_use"
                  /\ xblocks[Min(tu)].content # "null" => xdata.val = xblocks[Min(tu)].content
            /\ (tr = {} /\ (tx = {} \/ xblocks[Min(tx)].tk = "null") /\ tu = {}) =>
                  xdata.kind = "content_array"

\* C25's case: the tool_result block comes last, after a text block and a tool_use
\* block, and its output is the data.
C25_Witness ==
    /\ xpc = "done" /\ Len(xblocks) = 3
    /\ xblocks[1].type = "text" /\ xblocks[1].tk = "str"
    /\ xblocks[2].type = "tool_use"
    /\ xblocks[3].type = "tool_result" /\ xblocks[3].content = "null"
    /\ xblocks[3].output = "o"
    /\ xdata.kind = "tool_result" /\ xdata.val = "o"

(***************************************************************************)
(* Claims about the save / create handlers (checked under SpecSave)        *)
(***************************************************************************)
\* C7: for one open document at most one save/create operation is in flight: a
\* saveSkill or createTool message that arrives while an earlier one of the same panel
\* is still pending causes no second remote request, so no two update/create requests
\* are ever outstanding together.
C7_SingleSaveInFlight ==
    Cardinality({ h \in 1..MaxSaves : saves[h].st = "remote" }) <= 1

\* C9: an update or create request is sent only after the user picked the confirming
\* option of the modal dialog; with validation issues that option is "Update Anyway" /
\* "Create Anyway"; any other option, or a dismissal, sends nothing and leaves the
\* remote tool unchanged.
C9_OnlyConfirmedSends ==
    \A h \in 1..MaxSaves :
        LET s == saves[h]
            confirm == ConfirmLabel(s.command, s.hasErr)
        IN  /\ s.sent => s.choice = confirm
            /\ (s.sent /\ s.hasErr) => s.choice \in {"Update Anyway", "Create Anyway"}
            /\ (s.choice \notin {"none", confirm})
                 => (s.st = "done" /\ ~s.sent /\ ~s.applied)
            /\ s.applied => s.sent

\* C9's case: one save with validation issues went on after "... Anyway" and changed
\* the remote tool, another with validation issues was dismissed and sent nothing.
C9_Witness ==
    \E h, g \in 1..MaxSaves :
        /\ saves[h].hasErr /\ saves[h].sent /\ saves[h].applied
        /\ saves[h].choice \in {"Update Anyway", "Create Anyway"}
        /\ saves[g].hasErr /\ saves[g].st = "done" /\ saves[g].choice = "undefined"
        /\ ~saves[g].sent

\* An OpenAPI-dialect document whose only deficiency is an absent info.version.
OnlyVersionMissing(d) ==
    /\ ~IsBoundDialect(d)
    /\ d.version = "undefined"
    /\ validateOas([d EXCEPT !.version = "string"]) = << >>

\* C11: a save or create of an OpenAPI-dialect document whose only deficiency is an
\* absent info.version has no validation issue: its dialog is the normal confirmation
\* ("Update" / "Create"), not the override ("Update Anyway" / "Create Anyway").
C11_VersionAloneNormalPath ==
    \A h \in 1..MaxSaves :
        (saves[h].st # "unused" /\ OnlyVersionMissing(saves[h].doc))
            => (~saves[h].hasErr /\ saves[h].choice \notin {"Update Anyway", "Create Anyway"})

(***************************************************************************)
(* Claims about connectionToSecurity (checked under SpecSecurity)          *)
(***************************************************************************)
\* C12: a connection with an explicit non-empty security array gets exactly that array,
\* whatever its auth type; and every input, null and a connection without security
\* information included, gets a non-empty list and raises nothing.
C12_SecurityPrecedence ==
    secPc = "done" =>
        /\ (app.present /\ app.scheme \in {"array1", "array2"})
               => security = SecReturn(SchemeArray(app.scheme))
        /\ ~security.raised
        /\ Len(security.list) > 0

(***************************************************************************)
(* Claims about the tool compiler (checked under SpecCompile)              *)
(***************************************************************************)
Compiled == cpc \in {"compiled", "decompiled"}

\* p.in || 'query'
EffectiveIn(p) == IF p.in = "undefined" THEN "query" ELSE p.in

\* No two parameters of the document have the same name and the same location.
DistinctParams ==
    \A i, j \in DOMAIN oas.params :
        (oas.params[i].name = oas.params[j].name
           /\ EffectiveIn(oas.params[i]) = EffectiveIn(oas.params[j])) => i = j

\* C13: the compiler binds the first declared path and, within it, the first declared
\* HTTP method: for a path object declaring several methods in any order, http_method
\* is the one declared first.
C13_FirstDeclaredMethod ==
    (/\ Compiled
     /\ oas.paths.defined /\ oas.paths.list # << >>
     /\ oas.paths.list[1].methods # << >>
     /\ Range(oas.paths.list[1].methods) \subseteq Range(methods))
        => /\ tool.bound
           /\ tool.http_path = oas.paths.list[1].key
           /\ tool.http_method = ToUpperCase(oas.paths.list[1].methods[1])

\* C14: input_schema.properties has one distinct key per parameter: no parameter
\* overwrites another, also when a name appears in several locations or a parameter is
\* named like a prefixed key.
C14_OneKeyPerParameter ==
    (Compiled /\ tool.bound /\ DistinctParams)
        => /\ Len(tool.properties) = Len(oas.params)
           /\ \A i, j \in DOMAIN tool.keys : tool.keys[i] = tool.keys[j] => i = j

\* C15: for a parameter list with a name declared in two different locations, compiling
\* and then decompiling yields the parameters with their original names, locations and
\* required flags.
C15_AliasRoundTrip ==
    (/\ cpc = "decompiled" /\ tool.bound /\ DistinctParams
     /\ \A i \in DOMAIN oas.params : oas.params[i].in # "undefined"
     /\ \E i, j \in DOMAIN oas.params :
            /\ oas.params[i].name = oas.params[j].name
            /\ oas.params[i].in # oas.params[j].in)
        => copy.params = oas.params

\* The entries the claim keeps: references to apiKey and http/bearer schemes.
RECURSIVE KeptRefs(_)
KeptRefs(refs) ==
    IF refs = << >> THEN << >>
    ELSE (IF Head(refs) = "apiKey" THEN << "apiKey" >>
          ELSE IF Head(refs) = "httpBearer" THEN << "http/bearer" >>
          ELSE << >>) \o KeptRefs(Tail(refs))

\* C16: a non-empty explicit security array (x-ibm-security, or the binding's when the
\* root has none) is returned as is; otherwise the result has one entry per reference
\* to an apiKey or http/bearer scheme and every reference to a scheme of another type
\* (http/basic, oauth2, openIdConnect, unknown name) is dropped; without references it
\* is empty.
C16_BindingSecurityPrecedence ==
    (Compiled /\ tool.bound) =>
        /\ oas.xsec = "array" => tool.security = ExplicitRoot
        /\ (oas.xsec \in {"undefined", "null"} /\ oas.bsec = "array")
              => tool.security = ExplicitBinding
        /\ (/\ oas.xsec # "array" /\ oas.bsec # "array"
            /\ "oauth2Bearer" \notin Range(SecRefsOf(oas).l))
              => tool.security = KeptRefs(SecRefsOf(oas).l)

\* C17: in the bound tool http_method is the upper-cased method of an operation of the
\* first path and http_path that path's key; every property carries the `in` of the
\* parameter it was written from; required holds exactly the keys given to the
\* parameters whose required flag is true.  The weather document compiles to GET,
\* /current.json, q.in = query, required = [q].
C17_LocationAndRequiredness ==
    (Compiled /\ tool.bound) =>
        /\ \E j \in DOMAIN oas.paths.list[1].methods :
              tool.http_method = ToUpperCase(oas.paths.list[1].methods[j])
        /\ tool.http_method \in {"GET", "POST", "PUT", "PATCH", "DELETE"}
        /\ tool.http_path = oas.paths.list[1].key
        /\ \A j \in DOMAIN tool.properties :
              /\ tool.properties[j].from \in DOMAIN oas.params
              /\ tool.properties[j].in = EffectiveIn(oas.params[tool.properties[j].from])
              /\ tool.properties[j].key = tool.keys[tool.properties[j].from]
        /\ Range(tool.required)
              = { tool.keys[i] : i \in { k \in DOMAIN oas.params : oas.params[k].required } }
        /\ (oas.paths = PathsOf(WeatherPaths) /\ oas.params = WeatherParams)
              => /\ tool.http_method = "GET" /\ tool.http_path = "/current.json"
                 /\ Len(tool.properties) = 1
                 /\ tool.properties[1].key = "q" /\ tool.properties[1].in = "query"
                 /\ tool.required = << "q" >>

\* C17's cases: the weather document is compiled; and a document with a required and
\* an optional parameter in different locations is.
C17_Witness ==
    /\ cpc = "compiled" /\ tool.bound
    /\ \/ (oas.paths = PathsOf(WeatherPaths) /\ oas.params = WeatherParams
           /\ oas.xsec = "undefined" /\ oas.opsec = NoRefs /\ tool.required = << "q" >>)
       \/ (oas.params = << [name |-> "id", in |-> "path", required |-> TRUE],
                           [name |-> "id", in |-> "undefined", required |-> FALSE] >>
           /\ tool.required = << "id" >> /\ Len(tool.properties) = 2)

\* C28: the operation pre-filled in the Test tab is the operation that is compiled:
\* for an OpenAPI document with servers and at least one path, the method and path
\* chosen by detectLocalEndpoints equal http_method and http_path of the compiled
\* binding, also when the path declares several methods or a first key that is not
\* a compiled method.
C28_DetectedIsCompiled ==
    (Compiled /\ detected.set) =>
        /\ tool.bound
        /\ tool.http_method = detected.method
        /\ tool.http_path = detected.path

(***************************************************************************)
(* Claims about generation (checked under SpecGenerate)                    *)
(***************************************************************************)
WeatherObserved == << [name |-> "q", val |-> "Toronto,On"], [name |-> "key", val |-> "abc123"] >>

C19_PayloadKeys ==
    \A j \in DOMAIN ureqs :
        /\ ureqs[j].keys \subseteq
              {"name", "display_name", "description", "permission", "restrictions", "tags"}
        /\ ureqs[j].keys \cap {"binding", "input_schema", "output_schema", "connection_id"} = {}

\* C19's case: a document with binding, schemas and connection id set was sent.
C19_Witness ==
    /\ {"binding", "input_schema", "output_schema", "connection_id", "name"} \subseteq skillJson
    /\ Len(ureqs) = 2
    /\ ureqs[2].keys \cap skillJson = skillJson \cap PayloadFields

\* C20: one PUT is sent; a second request (PATCH, same payload) is sent only when the
\* PUT answered 405; no other status and no failure is retried; at most two requests
\* are sent; a final non-successful response ends in an error carrying its status and
\* its body.
C20_PutThenPatchOn405 ==
    /\ Len(ureqs) <= 2
    /\ Len(ureqs) >= 1 => ureqs[1].method = "PUT"
    /\ Len(ureqs) = 2 =>
          /\ ureqs[2].method = "PATCH" /\ ureqs[2].keys = ureqs[1].keys
          /\ uanswers[1].t = "response" /\ uanswers[1].status = 405
    /\ upc = "done" =>
          /\ Len(uanswers) = Len(ureqs)
          /\ (Len(ureqs) = 1 => ~(uanswers[1].t = "response" /\ uanswers[1].status = 405))
          /\ LET final == uanswers[Len(uanswers)]
             IN  /\ (final.t = "response" /\ ~Ok(final))
                       => uout = [kind |-> "threw", status |-> final.status,
                                  body |-> final.body]
                 /\ final.t = "throw" => uout.kind = "rejected"
                 /\ (final.t = "response" /\ Ok(final)) => uout.kind = "returned"

\* C20's case: the PUT answered 405, the PATCH answered 403 and the error carries 403.
C20_Witness ==
    /\ upc = "done" /\ Len(ureqs) = 2
    /\ uanswers[1].status = 405 /\ uanswers[2].status = 403 /\ uanswers[2].body = "text"
    /\ uout = [kind |-> "threw", status |-> 403, body |-> "text"]

(***************************************************************************)
(* Claims about deploySkill (checked under SpecDeploy)                     *)
(***************************************************************************)
\* C21: the upload is attempted only after the create POST answered OK and its body
\* was parsed; once the upload is started, any failure of it (an error raised, a
\* non-OK response) still ends in success with the created tool's id; a failed create
\* ends in an error with the status and the body, and no upload is attempted.
C21_UploadNonFatal ==
    /\ (\E j \in DOMAIN dreqs : dreqs[j] = "upload") =>
          /\ dreqs = << "create", "upload" >>
          /\ dans[1].t = "response" /\ Ok(dans[1]) /\ Parses(dans[1].body)
    /\ (dpc = "done" /\ dzip # "none") =>
          dout = [kind |-> "success", status |-> 0, body |-> "none",
                  toolId |-> ToolIdOf(dans[1].body)]
    /\ (dpc = "done" /\ dans[1].t = "response" /\ ~Ok(dans[1])) =>
          /\ dout = [kind |-> "threw", status |-> dans[1].status, body |-> dans[1].body,
                     toolId |-> "none"]
          /\ dreqs = << "create" >>
    /\ (dpc = "done" /\ dans[1].t = "throw") =>
          dout.kind = "rejected" /\ dreqs = << "create" >>

\* C21's case: the tool was created with id t-1, the upload answered 500, and the
\* deployment ended in success with t-1.
C21_Witness ==
    /\ dpc = "done" /\ Len(dans) = 2
    /\ dans[1].body = "id" /\ dans[2].t = "response" /\ dans[2].status = 500
    /\ dout.kind = "success" /\ dout.toolId = "t-1"

(***************************************************************************)
(* Claims about the API key parameter name (checked under SpecKey)         *)
(***************************************************************************)
\* C22: after a create-mode save, every apiKey entry of the compiled tool's
\* binding.openapi.security is named by the value of the field api-key-param-name,
\* with or without a connection selected.
C22_UserNameWins ==
    kpc = "saved" =>
        \A j \in 1..Len(ksec) :
            ksec[j].type = "apiKey" => ksec[j].name = FieldName(kfield)

(***************************************************************************)
(* Claims about the parameter table (checked under SpecTable)              *)
(***************************************************************************)
\* An identifier: only letters, digits and underscores, no underscore at either end.
IsIdentifier(s) ==
    /\ s # << >>
    /\ \A j \in DOMAIN s : s[j] \in {"a", "_"}
    /\ s[1] # "_" /\ s[Len(s)] # "_"

\* C23: when the table is written back, in both formats: every written name is the
\* sanitized identifier of the name typed in its row, a row whose sanitized name is
\* empty is skipped, and a blank default field gives a parameter without default.
C23_SanitizedWriteBack ==
    tpc = "json" =>
        /\ \A j \in 1..Len(twritten) :
              LET w == twritten[j]
                  r == trows[w.from]
              IN  /\ w.name = SanitizeKey(r.name)
                  /\ IsIdentifier(w.name)
                  /\ (r.def \in {"", " "} => w.def.t = "none")
        /\ \A i \in 1..Len(trows) :
              SanitizeKey(trows[i].name) = << >> =>
                  \A j \in 1..Len(twritten) : twritten[j].from # i

\* `in` and type with their defaults made explicit
SameIn(a, b) == SelectIn(a) = SelectIn(b) /\ (a = "cookie" <=> b = "cookie")

SameType(a, b) == SelectType(a) = SelectType(b) /\ (a = "array" <=> b = "array")

\* C24: in create mode, loading a document into the form and opening the JSON tab
\* with no edit made leaves the parameters as they were, in both formats: as many
\* parameters, the same names, `in`, types and required flags, defaults of the same
\* value and type, and title, enum and aliasName kept.
C24_TabSwitchKeepsParams ==
    (tpc = "json" /\ tedits = 0) =>
        /\ Len(twritten) = Len(tparams)
        /\ \A j \in 1..Len(twritten) :
              LET w == twritten[j]
                  p == tparams[j]
              IN  /\ w.name = p.name
                  /\ SameIn(w.in, p.in) /\ SameType(w.type, p.type)
                  /\ w.required = p.required
                  /\ w.def = p.def
                  /\ w.title = p.title /\ w.enum = p.enum /\ w.alias = p.alias

(***************************************************************************)
(* Claims about creation (checked under SpecCreate)                        *)
(***************************************************************************)
\* C27: whenever the createAgent or the createTool handler reports a failure to the
\* user, no new agent or tool exists on the remote service; a failure of the
\* tool-assignment update after a successful agent create leaves no agent behind.
C27_FailedCreatePersistsNothing ==
    creport = "failure" => cremote = cbefore

(***************************************************************************)
(* Claims about the name of an edited tool (checked under SpecRename)      *)
(***************************************************************************)
\* C29: in edit mode, pressing Update without changing any form field leaves the
\* machine name as it was: the name sent in the update payload equals the name of
\* the loaded tool, also when its display_name differs from its name.
C29_UpdateKeepsName ==
    (rpc = "sent" /\ ~redited) =>
        (rsent.sent => rsent.name = rtool.name)

(***************************************************************************)
(* Claims about concurrent remote tests (checked under SpecAgents)         *)
(***************************************************************************)
\* C30: under any interleaving of remote tests that use the shared test agent, when
\* the run of a test for tool T is submitted the agent's tool list is exactly [T],
\* and at most one agent named WxoBuilderTestAgent is ever created.
C30_SharedTestAgent ==
    /\ \A p \in Tests : asub[p].done => asub[p].tools = << atool[p] >>
    /\ acreated <= 1

(***************************************************************************)
(* Claims about the editor panels (checked under SpecPanel)                *)
(***************************************************************************)
\* C8: after any sequence of render, close and dispose events at most one live editing
\* session exists per entity id (here: per id of an existing entity), and currentPanel
\* never points at a disposed panel.
C8_OneLiveSessionPerId ==
    /\ \A p, q \in LivePanels :
          (panels[p].id = panels[q].id /\ panels[p].id # "none") => p = q
    /\ currentPanel # 0 => panels[currentPanel].live

(***************************************************************************)
(* Claims about the validator (checked under SpecValidate)                 *)
(***************************************************************************)
OpenApiDialectErrors ==
    { "Missing required field: openapi", "openapi must be a string (e.g. \"3.0.1\")",
      "Missing required field: info", "info.title is required",
      "info.version is recommended", "paths must be an object",
      "servers must be an array" }

Reported == { errors[j] : j \in 1..Len(errors) }

\* C10: a document with binding.openapi.http_method and .http_path (and a name) whose
\* input_schema is not an object yields exactly the error "input_schema is required for
\* WxO tools"; and whenever binding.openapi is present (an object) none of the
\* OpenAPI-dialect errors is reported.
C10_DialectRouting ==
    vpc = "validated" =>
        /\ (/\ doc.bindingOpenapi = "object"
            /\ doc.http_method = "string" /\ doc.http_path = "string"
            /\ doc.input_schema # "object"
            /\ (Truthy(doc.name) \/ Truthy(doc.display_name)))
              => errors = << "input_schema is required for WxO tools" >>
        /\ doc.bindingOpenapi = "object" => Reported \cap OpenApiDialectErrors = {}

====
